---- MODULE Spec2Model ----
(***************************************************************************)
(* A model of the ars URL library (a WHATWG URL parser and mutator).       *)
(*                                                                         *)
(* Text is a sequence of one-character strings; offsets are 0-based byte   *)
(* offsets exactly as in the Rust code, so the Rust slice s[a..b] is       *)
(* Slice(s, a, b).  The alphabets the inputs are drawn from are ASCII, so  *)
(* a byte is a character and every offset is a character boundary.         *)
(***************************************************************************)
EXTENDS Integers, Sequences, FiniteSets, TLC

(***************************************************************************)
(* Characters                                                              *)
(***************************************************************************)
LowerTable ==
  <<"a","b","c","d","e","f","g","h","i","j","k","l","m",
    "n","o","p","q","r","s","t","u","v","w","x","y","z">>

UpperTable ==
  <<"A","B","C","D","E","F","G","H","I","J","K","L","M",
    "N","O","P","Q","R","S","T","U","V","W","X","Y","Z">>

DigitTable == <<"0","1","2","3","4","5","6","7","8","9">>

HexTable == <<"0","1","2","3","4","5","6","7","8","9","A","B","C","D","E","F">>

\* The printable ASCII characters, 0x20 .. 0x7E, in code order (the grave
\* accent, 0x60, is written "<60>").
AsciiTable ==
  <<" ","!","\"","#","$","%","&","'","(",")","*","+",",","-",".","/",
    "0","1","2","3","4","5","6","7","8","9",":",";","<","=",">","?",
    "@","A","B","C","D","E","F","G","H","I","J","K","L","M","N","O",
    "P","Q","R","S","T","U","V","W","X","Y","Z","[","\\","]","^","_",
    "<60>","a","b","c","d","e","f","g","h","i","j","k","l","m","n","o",
    "p","q","r","s","t","u","v","w","x","y","z","{","|","}","~">>

\* The C0 controls 0x00 .. 0x1F in code order, and DEL.
ControlTable ==
  <<"<00>","<01>","<02>","<03>","<04>","<05>","<06>","<07>",
    "<08>","\t","\n","<0B>","<0C>","\r","<0E>","<0F>",
    "<10>","<11>","<12>","<13>","<14>","<15>","<16>","<17>",
    "<18>","<19>","<1A>","<1B>","<1C>","<1D>","<1E>","<1F>">>

Del == "<7F>"

\* A character outside ASCII (a decoded multi-byte sequence).
NonAscii == "<U+>"

Range(s) == {s[i] : i \in 1..Len(s)}

Lower == Range(LowerTable)
Upper == Range(UpperTable)
Digits == Range(DigitTable)
Alpha == Lower \cup Upper
AlphaNum == Alpha \cup Digits
HexDigits == Digits \cup {"a","b","c","d","e","f","A","B","C","D","E","F"}
Controls == Range(ControlTable)
Printable == Range(AsciiTable)

CodeOf ==
  [c \in Printable \cup Controls \cup {Del} |->
     IF c \in Printable THEN 31 + (CHOOSE i \in 1..95 : AsciiTable[i] = c)
     ELSE IF c = Del THEN 127
     ELSE (CHOOSE i \in 1..32 : ControlTable[i] = c) - 1]

CharOf(n) ==
  IF n < 32 THEN ControlTable[n + 1]
  ELSE IF n = 127 THEN Del
  ELSE IF n < 127 THEN AsciiTable[n - 31]
  ELSE NonAscii

LowerOf == [c \in Upper |-> LowerTable[CHOOSE i \in 1..26 : UpperTable[i] = c]]

to_ascii_lowercase_char(c) == IF c \in Upper THEN LowerOf[c] ELSE c

is_ascii(c) == c /= NonAscii

\* char code <= 0x20
IsC0OrSpace(c) == c \in Controls \cup {" "}

DigitVal == [c \in Digits |-> (CHOOSE i \in 1..10 : DigitTable[i] = c) - 1]

HexVal ==
  [c \in HexDigits |->
     IF c \in Digits THEN DigitVal[c]
     ELSE CodeOf[to_ascii_lowercase_char(c)] - 87]

(***************************************************************************)
(* Strings                                                                 *)
(***************************************************************************)
Slice(s, a, b) == SubSeq(s, a + 1, b)

From(s, a) == SubSeq(s, a + 1, Len(s))

MinOf(S) == CHOOSE x \in S : \A y \in S : x <= y

MaxOf(S) == CHOOSE x \in S : \A y \in S : x >= y

\* 0-based index of the first / last character of s that lies in cs, or -1.
FindFirst(s, cs) ==
  LET S == {i \in 1..Len(s) : s[i] \in cs}
  IN IF S = {} THEN -1 ELSE MinOf(S) - 1

FindLast(s, cs) ==
  LET S == {i \in 1..Len(s) : s[i] \in cs}
  IN IF S = {} THEN -1 ELSE MaxOf(S) - 1

\* 0-based index of the first character at or after position p that lies in
\* cs, or Len(s) when there is none (the scanning loops of the parser).
ScanTo(s, p, cs) ==
  LET S == {i \in (p + 1)..Len(s) : s[i] \in cs}
  IN IF S = {} THEN Len(s) ELSE MinOf(S) - 1

\* 0-based index of the first character at or after p that lies outside cs.
ScanWhile(s, p, cs) ==
  LET S == {i \in (p + 1)..Len(s) : s[i] \notin cs}
  IN IF S = {} THEN Len(s) ELSE MinOf(S) - 1

HasChar(s, c) == \E i \in 1..Len(s) : s[i] = c

StartsWith(s, p) == Len(s) >= Len(p) /\ SubSeq(s, 1, Len(p)) = p

EndsWith(s, p) == Len(s) >= Len(p) /\ SubSeq(s, Len(s) - Len(p) + 1, Len(s)) = p

ContainsStr(s, p) ==
  \E i \in 0..(Len(s) - Len(p)) : SubSeq(s, i + 1, i + Len(p)) = p

\* 0-based index of the first occurrence of p in s, or -1.
FindStr(s, p) ==
  LET S == {i \in 0..(Len(s) - Len(p)) : SubSeq(s, i + 1, i + Len(p)) = p}
  IN IF S = {} THEN -1 ELSE MinOf(S)

to_ascii_lowercase(s) == [i \in 1..Len(s) |-> to_ascii_lowercase_char(s[i])]

eq_ignore_ascii_case(s, t) == to_ascii_lowercase(s) = to_ascii_lowercase(t)

Filter(s, cs) == SelectSeq(s, LAMBDA c : c \notin cs)

RECURSIVE Flatten(_)
Flatten(ss) == IF ss = <<>> THEN <<>> ELSE Head(ss) \o Flatten(Tail(ss))

\* str::split on one character: the pieces between the separators.
RECURSIVE Split(_, _)
Split(s, c) ==
  LET i == FindFirst(s, {c})
  IN IF i < 0 THEN <<s>> ELSE <<Slice(s, 0, i)>> \o Split(From(s, i + 1), c)

\* Join the pieces with one separator character between them.
RECURSIVE Join(_, _)
Join(ss, c) ==
  IF ss = <<>> THEN <<>>
  ELSE IF Len(ss) = 1 THEN ss[1]
  ELSE ss[1] \o <<c>> \o Join(Tail(ss), c)

\* str::replace of one character by another.
ReplaceChar(s, a, b) == [i \in 1..Len(s) |-> IF s[i] = a THEN b ELSE s[i]]

\* str::trim_matches(|c| c <= 0x20)
TrimC0Space(s) ==
  LET S == {i \in 1..Len(s) : ~IsC0OrSpace(s[i])}
  IN IF S = {} THEN <<>> ELSE SubSeq(s, MinOf(S), MaxOf(S))

\* str::trim_end_matches(c)
TrimEnd(s, c) ==
  LET S == {i \in 1..Len(s) : s[i] /= c}
  IN IF S = {} THEN <<>> ELSE SubSeq(s, 1, MaxOf(S))

\* u16::to_string
RECURSIVE ToDec(_)
ToDec(n) ==
  IF n < 10 THEN <<DigitTable[n + 1]>>
  ELSE ToDec(n \div 10) \o <<DigitTable[(n % 10) + 1]>>

\* The value of a digit string in the given radix, every character being a
\* digit of that radix.
RECURSIVE RadixVal(_, _)
RadixVal(s, radix) ==
  IF s = <<>> THEN 0
  ELSE RadixVal(SubSeq(s, 1, Len(s) - 1), radix) * radix + HexVal[s[Len(s)]]

(***************************************************************************)
(* Results                                                                 *)
(***************************************************************************)
NoPort == -1

\* Binds a computed value to a name for the rest of an expression.
With(x, Op(_)) == Op(x)

\* Binds the value of x, computed once, to a name for the rest of an expression.
Eager(x, Op(_)) == CHOOSE r \in {Op(v) : v \in {x}} : TRUE

NoUrl ==
  [buffer |-> <<>>, protocol_end |-> 0, username_end |-> 0, password_end |-> 0,
   host_start |-> 0, host_end |-> 0, port |-> NoPort, pathname_start |-> 0,
   search_start |-> 0, hash_start |-> 0, scheme_type |-> "NotSpecial"]

Ok(u) == [ok |-> TRUE, err |-> "", url |-> u]

Err(e) == [ok |-> FALSE, err |-> e, url |-> NoUrl]

\* A value or an error, for the codecs.
OkVal(v) == [ok |-> TRUE, err |-> "", val |-> v]

ErrVal(e) == [ok |-> FALSE, err |-> e, val |-> <<>>]

None == [some |-> FALSE, s |-> <<>>]

Some(t) == [some |-> TRUE, s |-> t]

(***************************************************************************)
(* types.rs, scheme.rs                                                     *)
(***************************************************************************)
is_special(scheme_type) == scheme_type /= "NotSpecial"

default_port(scheme_type) ==
  CASE scheme_type \in {"Http", "Ws"} -> 80
    [] scheme_type \in {"Https", "Wss"} -> 443
    [] scheme_type = "Ftp" -> 21
    [] OTHER -> NoPort

get_scheme_type(scheme) ==
  CASE scheme = <<"w","s">> -> "Ws"
    [] scheme = <<"w","s","s">> -> "Wss"
    [] scheme = <<"f","t","p">> -> "Ftp"
    [] scheme = <<"h","t","t","p">> -> "Http"
    [] scheme = <<"f","i","l","e">> -> "File"
    [] scheme = <<"h","t","t","p","s">> -> "Https"
    [] OTHER -> "NotSpecial"

is_default_port(scheme_type, port) == default_port(scheme_type) = port

(***************************************************************************)
(* unicode/percent_encode.rs                                               *)
(***************************************************************************)
C0_CONTROL_SET == Controls \cup {Del}

FRAGMENT_SET == C0_CONTROL_SET \cup {" ", "\"", "<", ">", "<60>"}

PATH_SET == FRAGMENT_SET \cup {"#", "?", "^", "<60>", "{", "}"}

OPAQUE_PATH_SET == PATH_SET \cup {"^"}

USERINFO_SET == PATH_SET \cup {"/", ":", ";", "=", "@", "[", "\\", "]", "^", "|"}

SPECIAL_QUERY_SET == C0_CONTROL_SET \cup {" ", "\"", "#", "<", ">", "'"}

QUERY_SET == C0_CONTROL_SET \cup {" ", "\"", "#", "<", ">"}

\* "%XX", upper-case hex, of one ASCII character; the character NonAscii
\* has the two bytes of U+00E9.
PercentByte(c) ==
  IF c = NonAscii THEN <<"%", "C", "3", "%", "A", "9">>
  ELSE <<"%", HexTable[(CodeOf[c] \div 16) + 1], HexTable[(CodeOf[c] % 16) + 1]>>

\* utf8_percent_encode: the characters of the set and every non-ASCII byte
percent_encode_with_set(input, encode_set) ==
  Flatten([i \in 1..Len(input) |->
             IF input[i] \in encode_set \/ input[i] = NonAscii
             THEN PercentByte(input[i])
             ELSE <<input[i]>>])

percent_encode_userinfo(input) == percent_encode_with_set(input, USERINFO_SET)

\* The bytes of percent_decode_str: "%" and two hex digits give one byte,
\* every other character stands for itself.
RECURSIVE DecodeBytes(_)
DecodeBytes(s) ==
  IF s = <<>> THEN <<>>
  ELSE IF s[1] = "%" /\ Len(s) >= 3 /\ s[2] \in HexDigits /\ s[3] \in HexDigits
       THEN <<HexVal[s[2]] * 16 + HexVal[s[3]]>> \o DecodeBytes(From(s, 3))
       ELSE IF s[1] = NonAscii THEN <<195, 169>> \o DecodeBytes(Tail(s))
       ELSE <<CodeOf[s[1]]>> \o DecodeBytes(Tail(s))

\* The mark of a byte string that is not well-formed UTF-8
NotUtf8 == <<"<not-utf8>">>

\* The characters of a byte string read as UTF-8, or NotUtf8 when it is not
\* well-formed UTF-8.  A multi-byte character is the one token NonAscii.
RECURSIVE Utf8Chars(_)
Utf8Chars(bs) ==
  IF bs = <<>> THEN <<>>
  ELSE
    LET b == bs[1]
        Cont(i, lo, hi) == Len(bs) >= i /\ bs[i] >= lo /\ bs[i] <= hi
        n == IF b < 128 THEN 1
             ELSE IF b >= 194 /\ b <= 223 /\ Cont(2, 128, 191) THEN 2
             ELSE IF b = 224 /\ Cont(2, 160, 191) /\ Cont(3, 128, 191) THEN 3
             ELSE IF b = 237 /\ Cont(2, 128, 159) /\ Cont(3, 128, 191) THEN 3
             ELSE IF b >= 225 /\ b <= 239 /\ b /= 237
                     /\ Cont(2, 128, 191) /\ Cont(3, 128, 191) THEN 3
             ELSE IF b = 240 /\ Cont(2, 144, 191) /\ Cont(3, 128, 191)
                     /\ Cont(4, 128, 191) THEN 4
             ELSE IF b >= 241 /\ b <= 243 /\ Cont(2, 128, 191)
                     /\ Cont(3, 128, 191) /\ Cont(4, 128, 191) THEN 4
             ELSE IF b = 244 /\ Cont(2, 128, 143) /\ Cont(3, 128, 191)
                     /\ Cont(4, 128, 191) THEN 4
             ELSE 0
    IN IF n = 0 THEN NotUtf8
       ELSE LET rest == Utf8Chars(From(bs, n))
            IN IF rest = NotUtf8 THEN NotUtf8
               ELSE <<IF n = 1 THEN CharOf(b) ELSE NonAscii>> \o rest

percent_decode(input) ==
  LET cs == Utf8Chars(DecodeBytes(input))
  IN IF cs = NotUtf8 THEN ErrVal("InvalidPercentEncoding") ELSE OkVal(cs)

(***************************************************************************)
(* checkers.rs                                                             *)
(***************************************************************************)
is_ascii_hexdigit(c) == c \in HexDigits

AllIn(s, cs) == \A i \in 1..Len(s) : s[i] \in cs

is_ipv4(input0) ==
  LET input == IF EndsWith(input0, <<".">>)
               THEN SubSeq(input0, 1, Len(input0) - 1) ELSE input0
  IN IF input = <<>> THEN FALSE
     ELSE IF input[Len(input)] \notin
               Digits \cup {"a","b","c","d","e","f","A","B","C","D","E","F","x","X"}
     THEN FALSE
     ELSE
       LET last_segment == From(input, FindLast(input, {"."}) + 1)
       IN IF AllIn(last_segment, Digits) THEN TRUE
          ELSE IF StartsWith(last_segment, <<"0","x">>)
                  \/ StartsWith(last_segment, <<"0","X">>)
          THEN AllIn(From(last_segment, 2), HexDigits)
          ELSE FALSE

\* Some(port) as the number, None as NoPort.
parse_port(port) ==
  IF port = <<>> \/ ~AllIn(port, Digits) THEN NoPort
  ELSE LET sig == From(port, ScanWhile(port, 0, {"0"}))
       IN IF Len(sig) > 5 THEN NoPort
          ELSE IF RadixVal(sig, 10) > 65535 THEN NoPort
          ELSE RadixVal(sig, 10)

(***************************************************************************)
(* ipv4.rs                                                                 *)
(***************************************************************************)
\* A number is kept as its four bytes, most significant first, so that the
\* whole u32 range is exact.  acc * radix + d, or <<-1>> from 2^32 on.
MulAdd(acc, radix, d) ==
  IF acc = <<-1>> THEN <<-1>>
  ELSE LET t4 == acc[4] * radix + d
           t3 == acc[3] * radix + (t4 \div 256)
           t2 == acc[2] * radix + (t3 \div 256)
           t1 == acc[1] * radix + (t2 \div 256)
       IN IF t1 >= 256 THEN <<-1>>
          ELSE <<t1, t2 % 256, t3 % 256, t4 % 256>>

RECURSIVE RadixBytes(_, _)
RadixBytes(s, radix) ==
  IF s = <<>> THEN <<0, 0, 0, 0>>
  ELSE MulAdd(RadixBytes(SubSeq(s, 1, Len(s) - 1), radix), radix, HexVal[s[Len(s)]])

\* from_str_radix and str::parse accept one leading '+'.
Unsigned(s) == IF s /= <<>> /\ s[1] = "+" THEN Tail(s) ELSE s

\* u64::from_str_radix followed by the callers' bounds: the four bytes, or
\* <<-1>> for a character that is no digit of the radix or a value of 2^32 or
\* more (which every caller rejects).
NumberIn(digits, radix, digitset) ==
  IF Unsigned(digits) = <<>> \/ ~AllIn(Unsigned(digits), digitset) THEN <<-1>>
  ELSE RadixBytes(Unsigned(digits), radix)

parse_ipv4_number(input) ==
  IF input = <<>> THEN <<-1>>
  ELSE IF StartsWith(input, <<"0","x">>) \/ StartsWith(input, <<"0","X">>)
  THEN IF Len(input) = 2 THEN <<0, 0, 0, 0>>
       ELSE NumberIn(From(input, 2), 16, HexDigits)
  ELSE IF Len(input) >= 2 /\ input[1] = "0"
  THEN NumberIn(input, 8, {"0","1","2","3","4","5","6","7"})
  ELSE NumberIn(input, 10, Digits)

\* The address as its four bytes, most significant first.
parse_ipv4(input0) ==
  IF input0 = <<>> THEN ErrVal("InvalidIpv4")
  ELSE
    With(IF EndsWith(input0, <<".">>)
         THEN SubSeq(input0, 1, Len(input0) - 1) ELSE input0, LAMBDA input :
    With(Split(input, "."), LAMBDA parts :
    With(Len(parts), LAMBDA n :
    With([i \in 1..n |-> parse_ipv4_number(parts[i])], LAMBDA numbers :
      IF n > 4 THEN ErrVal("InvalidIpv4")
      ELSE IF \E i \in 1..n : numbers[i] = <<-1>> THEN ErrVal("InvalidIpv4")
      \* last >= 256^(5-n)
      ELSE IF \E i \in 1..(n - 1) : numbers[n][i] /= 0 THEN ErrVal("InvalidIpv4")
      \* a number before the last >= 256
      ELSE IF \E i \in 1..(n - 1) :
                numbers[i][1] /= 0 \/ numbers[i][2] /= 0 \/ numbers[i][3] /= 0
      THEN ErrVal("InvalidIpv4")
      ELSE OkVal([i \in 1..4 |-> IF i < n THEN numbers[i][4]
                                 ELSE numbers[n][i]])))))

serialize_ipv4(ipv4) ==
  ToDec(ipv4[1]) \o <<".">> \o ToDec(ipv4[2]) \o <<".">>
    \o ToDec(ipv4[3]) \o <<".">> \o ToDec(ipv4[4])

(***************************************************************************)
(* ipv6.rs                                                                 *)
(***************************************************************************)
LowerHexTable == <<"0","1","2","3","4","5","6","7","8","9","a","b","c","d","e","f">>

\* format!("{:x}")
RECURSIVE ToHex(_)
ToHex(n) ==
  IF n < 16 THEN <<LowerHexTable[n + 1]>>
  ELSE ToHex(n \div 16) \o <<LowerHexTable[(n % 16) + 1]>>

\* Ok(u16) as the number, Err as -1.
parse_hex_segment(s) ==
  IF s = <<>> \/ Len(s) > 4 THEN -1
  ELSE IF Unsigned(s) = <<>> \/ ~AllIn(Unsigned(s), HexDigits) THEN -1
  ELSE RadixVal(Unsigned(s), 16)

\* Ok(Vec<u16>) as the sequence, Err as <<-1>>.
parse_segments(s) ==
  IF s = <<>> THEN <<>>
  ELSE With(Split(s, ":"), LAMBDA parts :
       With([i \in 1..Len(parts) |-> parse_hex_segment(parts[i])], LAMBDA segs :
         IF \E i \in 1..Len(segs) : segs[i] < 0 THEN <<-1>> ELSE segs))

\* str::parse::<u8>: Ok as the number, Err as -1.
ParseU8(s) ==
  IF Unsigned(s) = <<>> \/ ~AllIn(Unsigned(s), Digits) THEN -1
  ELSE LET sig == From(Unsigned(s), ScanWhile(Unsigned(s), 0, {"0"}))
       IN IF Len(sig) > 3 \/ RadixVal(sig, 10) > 255 THEN -1 ELSE RadixVal(sig, 10)

\* ipv6.rs has its own dotted-decimal parser: exactly four u8 parts.
ipv6_parse_ipv4(s) ==
  With(Split(s, "."), LAMBDA parts :
  With([i \in 1..Len(parts) |-> ParseU8(parts[i])], LAMBDA bytes :
    IF Len(parts) /= 4 THEN ErrVal("InvalidIpv4")
    ELSE IF \E i \in 1..4 : bytes[i] < 0 THEN ErrVal("InvalidIpv4")
    ELSE OkVal(bytes)))

Zeros(n) == [i \in 1..n |-> 0]

\* before ++ zeros ++ after, filling `width` segments; the caller has checked
\* that before and after together have at most `width` segments.
FillCompressed(before, after, width) ==
  before \o Zeros(width - Len(before) - Len(after)) \o after

\* The segments without "::": exactly `width` of them, followed by v4.
exact_segments(parsed, width, v4) ==
  IF parsed = <<-1>> \/ Len(parsed) /= width THEN ErrVal("InvalidIpv6")
  ELSE OkVal(parsed \o v4)

\* The segments around "::": at most `most` of them, zeros between, followed
\* by v4.
compressed_segments(before_segments, after_segments, width, most, v4) ==
  IF before_segments = <<-1>> \/ after_segments = <<-1>> THEN ErrVal("InvalidIpv6")
  ELSE IF Len(before_segments) + Len(after_segments) > most
  THEN ErrVal("InvalidIpv6")
  ELSE OkVal(FillCompressed(before_segments, after_segments, width) \o v4)

\* dc is the position of the first "::", -1 for none.
segments_around(input, dc, width, most, v4) ==
  IF dc < 0 THEN exact_segments(parse_segments(input), width, v4)
  ELSE compressed_segments(parse_segments(Slice(input, 0, dc)),
                           parse_segments(From(input, dc + 2)), width, most, v4)

\* total > 7 is refused
parse_ipv6_pure(input) ==
  segments_around(input, FindStr(input, <<":", ":">>), 8, 7, <<>>)

\* total > 6 is refused: six segments may stand around a "::"
parse_ipv6_with_ipv4(input) ==
  With(FindLast(input, {":"}), LAMBDA last_colon :
  With(Slice(input, 0, last_colon), LAMBDA ipv6_part :
  With(ipv6_parse_ipv4(From(input, last_colon + 1)), LAMBDA ipv4_addr :
    IF ~ipv4_addr.ok THEN ErrVal(ipv4_addr.err)
    ELSE With(<<ipv4_addr.val[1] * 256 + ipv4_addr.val[2],
                ipv4_addr.val[3] * 256 + ipv4_addr.val[4]>>, LAMBDA v4 :
           IF ipv6_part = <<>> \/ ipv6_part = <<":">> THEN OkVal(Zeros(6) \o v4)
           ELSE segments_around(ipv6_part, FindStr(ipv6_part, <<":", ":">>),
                                6, 6, v4)))))

parse_ipv6(input0) ==
  LET input == IF StartsWith(input0, <<"[">>) /\ EndsWith(Tail(input0), <<"]">>)
               THEN SubSeq(input0, 2, Len(input0) - 1) ELSE input0
      last_colon == FindLast(input, {":"})
  IN IF HasChar(input, "%") THEN ErrVal("InvalidIpv6")
     ELSE IF last_colon >= 0 /\ HasChar(From(input, last_colon + 1), ".")
     THEN parse_ipv6_with_ipv4(input)
     ELSE parse_ipv6_pure(input)

\* <<start, len>> of the last longest run of zero segments
LastLongestZeroSequence(segments) ==
  LET RunLen(i) ==
        MaxOf({k \in 0..(9 - i) : \A j \in i..(i + k - 1) : segments[j] = 0})
      Starts == {i \in 1..8 : segments[i] = 0 /\ (i = 1 \/ segments[i - 1] /= 0)}
  IN IF Starts = {} THEN <<-1, 0>>
     ELSE LET best == MaxOf({RunLen(i) : i \in Starts})
              last == MaxOf({i \in Starts : RunLen(i) = best})
          IN <<last - 1, best>>

\* <<start, len>> of the first longest run of zero segments; start is 0-based,
\* -1 (None) when there is no zero segment.
find_longest_zero_sequence(segments) ==
  LET RunLen(i) == \* length of the zero run starting at 1-based i
        MaxOf({k \in 0..(9 - i) : \A j \in i..(i + k - 1) : segments[j] = 0})
      Starts == {i \in 1..8 : segments[i] = 0 /\ (i = 1 \/ segments[i - 1] /= 0)}
  IN IF Starts = {} THEN <<-1, 0>>
     ELSE LET best == MaxOf({RunLen(i) : i \in Starts})
              first == MinOf({i \in Starts : RunLen(i) = best})
          IN <<first - 1, best>>

RECURSIVE SerializeFrom(_, _, _, _)
SerializeFrom(segments, i, cstart, cend) ==
  \* i is 0-based; cstart..cend is the compressed range, cstart = -1 for none
  IF i >= 8 THEN <<>>
  ELSE IF cstart = i THEN <<":", ":">> \o SerializeFrom(segments, cend, cstart, cend)
  ELSE (IF i > 0 /\ i /= cend THEN <<":">> ELSE <<>>)
         \o ToHex(segments[i + 1]) \o SerializeFrom(segments, i + 1, cstart, cend)

serialize_ipv6(segments) ==
  LET z == find_longest_zero_sequence(segments)
      compress == z[1] >= 0 /\ z[2] > 1
  IN <<"[">>
       \o SerializeFrom(segments, 0, IF compress THEN z[1] ELSE -1,
                        IF compress THEN z[1] + z[2] ELSE -1)
       \o <<"]">>

(***************************************************************************)
(* unicode/idna.rs                                                         *)
(***************************************************************************)
is_punycode_prefix(slice) ==
  /\ Len(slice) >= 4
  /\ slice[1] \in {"x", "X"}
  /\ slice[2] \in {"n", "N"}
  /\ slice[3] = "-"
  /\ slice[4] = "-"

has_punycode(domain) ==
  /\ Len(domain) >= 4
  /\ \/ is_punycode_prefix(domain)
     \/ \E pos \in 1..Len(domain) :
          domain[pos] = "." /\ is_punycode_prefix(From(domain, pos))

\* The idna crate's ToASCII is an external collaborator.  The inputs of this
\* model are ASCII, and on an ASCII domain whose labels carry the punycode
\* prefix the crate validates the label; the model's alphabets hold no "n", so
\* no input reaches it, and it is given as a failure.
idna_domain_to_ascii(domain) == ErrVal("IdnaError")

domain_to_ascii(domain) ==
  IF AllIn(domain, Printable \cup Controls \cup {Del})
     /\ ~HasChar(domain, "%") /\ ~has_punycode(domain)
  THEN IF AllIn(domain, AlphaNum \cup {".", "-"})
       THEN OkVal(to_ascii_lowercase(domain))
       ELSE ErrVal("InvalidHost")
  ELSE idna_domain_to_ascii(domain)

(***************************************************************************)
(* url_components.rs, url_aggregator.rs: the value and its getters.        *)
(* A URL value is one record: the buffer, the offsets of UrlComponents,    *)
(* the numeric port (NoPort for None) and the scheme type.                 *)
(***************************************************************************)
username_start(u) ==
  IF u.host_start > u.protocol_end THEN u.protocol_end + 2 ELSE u.protocol_end

password_start(u) ==
  IF u.password_end > u.username_end THEN u.username_end + 1 ELSE u.username_end

get_component(u, start, end) ==
  IF start <= end /\ end <= Len(u.buffer) THEN Slice(u.buffer, start, end) ELSE <<>>

pathname_end(u) ==
  IF u.search_start > 0 THEN u.search_start
  ELSE IF u.hash_start > 0 THEN u.hash_start
  ELSE Len(u.buffer)

get_pathname_end(comp, buf_len) ==
  IF comp.search_start > 0 THEN comp.search_start
  ELSE IF comp.hash_start > 0 THEN comp.hash_start
  ELSE buf_len

get_search_end(comp, buf_len) ==
  IF comp.hash_start > 0 THEN comp.hash_start ELSE buf_len

href(u) == u.buffer

protocol(u) == get_component(u, 0, u.protocol_end)

username(u) == get_component(u, username_start(u), u.username_end)

password(u) == get_component(u, password_start(u), u.password_end)

pathname(u) == get_component(u, u.pathname_start, pathname_end(u))

has_opaque_path(u) ==
  IF is_special(u.scheme_type) THEN FALSE
  ELSE IF u.host_start > u.protocol_end THEN FALSE
  ELSE ~StartsWith(pathname(u), <<"/">>)

\* String::get(a..b) == Some(t)
GetIs(buf, a, b, t) == a <= b /\ b <= Len(buf) /\ Slice(buf, a, b) = t

host(u) ==
  IF has_opaque_path(u) THEN <<>>
  ELSE LET has_dash_dot == /\ u.pathname_start = u.host_end + 2
                           /\ u.pathname_start <= Len(u.buffer)
                           /\ GetIs(u.buffer, u.host_end, u.host_end + 2, <<"/", ".">>)
           end == IF has_dash_dot THEN u.host_end ELSE u.pathname_start
       IN IF u.host_start <= end /\ end <= Len(u.buffer)
          THEN Slice(u.buffer, u.host_start, end) ELSE <<>>

hostname(u) ==
  IF has_opaque_path(u) THEN <<>> ELSE get_component(u, u.host_start, u.host_end)

has_port(u) == u.port /= NoPort /\ default_port(u.scheme_type) /= u.port

port(u) ==
  IF ~has_port(u) THEN <<>>
  ELSE IF u.host_end + 1 < u.pathname_start /\ u.pathname_start <= Len(u.buffer)
  THEN Slice(u.buffer, u.host_end + 1, u.pathname_start)
  ELSE <<>>

search(u) ==
  IF u.search_start = 0 THEN <<>>
  ELSE LET result == get_component(u, u.search_start, get_search_end(u, Len(u.buffer)))
       IN IF result = <<"?">> THEN <<>> ELSE result

hash(u) ==
  IF u.hash_start = 0 THEN <<>>
  ELSE LET result == get_component(u, u.hash_start, Len(u.buffer))
       IN IF result = <<"#">> THEN <<>> ELSE result

has_credentials(u) == username(u) /= <<>> \/ password(u) /= <<>>

has_hostname(u) == u.host_start < u.host_end

has_search(u) == u.search_start > 0

has_hash(u) == u.hash_start > 0

has_empty_hostname(u) == u.host_start = u.host_end

from_buffer(u) ==
  LET scheme == IF u.protocol_end > 0 /\ Len(u.buffer) >= u.protocol_end
                THEN TrimEnd(Slice(u.buffer, 0, u.protocol_end), ":") ELSE <<>>
  IN [u EXCEPT !.scheme_type = get_scheme_type(scheme)]

\* buffer.push_str
Push(u, t) == [u EXCEPT !.buffer = @ \o t]

(***************************************************************************)
(* parser/parse_aggregator.rs: host and port                               *)
(***************************************************************************)
\* The port block that ends parse_host_and_port (it stands three times in
\* the source; the non-special copy has no file check, and a non-special
\* scheme is never File).  m.host_end is already set.
WritePort(m, port_str, scheme_type) ==
  IF ~port_str.some THEN Ok([m EXCEPT !.pathname_start = Len(m.buffer)])
  ELSE IF scheme_type = "File" THEN Err("InvalidHost")
  ELSE IF port_str.s = <<>> THEN Ok([m EXCEPT !.pathname_start = Len(m.buffer)])
  ELSE
    With(parse_port(port_str.s), LAMBDA port_num :
    With(IF is_default_port(scheme_type, port_num) THEN m.buffer
         ELSE m.buffer \o <<":">> \o ToDec(port_num), LAMBDA buf :
      IF port_num = NoPort THEN Err("InvalidPort")
      ELSE Ok([m EXCEPT !.port = port_num, !.buffer = buf,
                        !.pathname_start = Len(buf)])))

\* (host_str, port_str) of "host:port" or "[v6]:port"
SplitHostPort(host_and_port) ==
  IF StartsWith(host_and_port, <<"[">>)
  THEN LET bracket_end == FindFirst(host_and_port, {"]"})
       IN IF bracket_end < 0 THEN <<host_and_port, None>>
          ELSE LET port_part == From(host_and_port, bracket_end + 1)
               IN <<Slice(host_and_port, 0, bracket_end + 1),
                    IF StartsWith(port_part, <<":">>) THEN Some(Tail(port_part))
                    ELSE None>>
  ELSE LET colon_pos == FindLast(host_and_port, {":"})
       IN IF colon_pos < 0 THEN <<host_and_port, None>>
          ELSE <<Slice(host_and_port, 0, colon_pos),
                 Some(From(host_and_port, colon_pos + 1))>>

OpaqueHostForbidden ==
  {"<00>", " ", "#", "/", "<", ">", "?", "@", "[", "\\", "]", "^", "|"}

SpecialHostForbidden ==
  Controls \cup {" ", Del, "#", "%", "/", ":", "<", ">", "?", "@", "[", "\\", "]",
                 "^", "|"}

\* Every '%' is followed by two hex digits that lie inside the string.
RECURSIVE PercentShapeOk(_)
PercentShapeOk(s) ==
  IF s = <<>> THEN TRUE
  ELSE IF s[1] /= "%" THEN PercentShapeOk(Tail(s))
  ELSE IF Len(s) < 3 \/ s[2] \notin HexDigits \/ s[3] \notin HexDigits THEN FALSE
  ELSE PercentShapeOk(From(s, 3))

\* The scan of parse_host_and_port for "xn--" at any position.
HasPunycodeAnywhere(host_str) ==
  \E i \in 0..(Len(host_str) - 4) : is_punycode_prefix(From(host_str, i))

SetHostEnd(m) == [m EXCEPT !.host_end = Len(m.buffer)]

\* A parsed address as the text its serializer gives, or its error.
serialized_ipv6(segments) ==
  IF segments.ok THEN OkVal(serialize_ipv6(segments.val)) ELSE segments

serialized_ipv4(ipv4) ==
  IF ipv4.ok THEN OkVal(serialize_ipv4(ipv4.val)) ELSE ipv4

\* The host text is pushed, host_end is set and the port block follows; the
\* error of a failed host is returned as it is.
WriteHost(text, port_str, m, scheme_type) ==
  IF ~text.ok THEN Err(text.err)
  ELSE WritePort(SetHostEnd(Push(m, text.val)), port_str, scheme_type)

opaque_host_and_port(host_str, port_str, m, scheme_type) ==
  IF StartsWith(host_str, <<"[">>)
  THEN IF ~EndsWith(host_str, <<"]">>) THEN Err("InvalidHost")
       ELSE WriteHost(serialized_ipv6(parse_ipv6(host_str)),
                      port_str, m, scheme_type)
  ELSE IF \E i \in 1..Len(host_str) : host_str[i] \in OpaqueHostForbidden
  THEN Err("InvalidHost")
  ELSE WriteHost(OkVal(percent_encode_with_set(host_str,
                                               Controls \cup {Del, NonAscii})),
                 port_str, m, scheme_type)

\* The domain of a special host after to_ascii: an IPv4 address when it
\* looks like one.
ascii_host(ascii) ==
  IF ~ascii.ok THEN ascii
  ELSE IF is_ipv4(ascii.val) THEN serialized_ipv4(parse_ipv4(ascii.val))
  ELSE ascii

\* The special branch of parse_host_and_port on the percent-decoded host.
decoded_host_and_port(host_str, port_str, m, scheme_type) ==
  IF to_ascii_lowercase(host_str) = <<"x","n","-","-">> THEN Err("InvalidHost")
  ELSE IF StartsWith(host_str, <<"[">>) /\ EndsWith(host_str, <<"]">>)
  THEN WriteHost(serialized_ipv6(parse_ipv6(host_str)),
                 port_str, m, scheme_type)
  ELSE IF is_ipv4(host_str) /\ host_str /= <<>>
  THEN WriteHost(serialized_ipv4(parse_ipv4(host_str)),
                 port_str, m, scheme_type)
  ELSE IF HasChar(host_str, ":") THEN Err("InvalidHost")
  ELSE IF scheme_type = "File"
          /\ eq_ignore_ascii_case(host_str, <<"l","o","c","a","l","h","o","s","t">>)
  THEN WritePort(SetHostEnd(m), port_str, scheme_type)
  ELSE IF \E i \in 1..Len(host_str) : host_str[i] \in SpecialHostForbidden
  THEN Err("InvalidHost")
  ELSE WriteHost(ascii_host(IF AllIn(host_str, Printable \cup Controls \cup {Del})
                               /\ ~HasPunycodeAnywhere(host_str)
                            THEN OkVal(to_ascii_lowercase(host_str))
                            ELSE domain_to_ascii(host_str)),
                 port_str, m, scheme_type)

special_host_and_port(raw_host, port_str, m, scheme_type) ==
  IF HasChar(raw_host, "%") /\ ~PercentShapeOk(raw_host) THEN Err("InvalidHost")
  ELSE With(IF HasChar(raw_host, "%") /\ ~StartsWith(raw_host, <<"[">>)
            THEN percent_decode(raw_host) ELSE OkVal(raw_host), LAMBDA decoded :
         IF ~decoded.ok THEN Err(decoded.err)
         ELSE decoded_host_and_port(decoded.val, port_str, m, scheme_type))

parse_host_and_port(host_and_port, m, scheme_type) ==
  With(SplitHostPort(host_and_port), LAMBDA hp :
    IF ~is_special(scheme_type)
    THEN opaque_host_and_port(hp[1], hp[2], m, scheme_type)
    ELSE special_host_and_port(hp[1], hp[2], m, scheme_type))

(***************************************************************************)
(* helpers.rs                                                              *)
(***************************************************************************)
has_tabs_or_newline(input) == \E i \in 1..Len(input) : input[i] \in {"\t", "\n", "\r"}

\* (input without the fragment, the fragment without its '#')
prune_fragment(input) ==
  LET pos == FindFirst(input, {"#"})
  IN IF pos < 0 THEN <<input, None>>
     ELSE <<Slice(input, 0, pos), Some(From(input, pos + 1))>>

clean_tabs_and_newlines(input) ==
  IF ~\E i \in 1..Len(input) : IsC0OrSpace(input[i]) THEN input
  ELSE LET trimmed == TrimC0Space(input)
       IN IF ~has_tabs_or_newline(trimmed) THEN trimmed
          ELSE Filter(trimmed, {"\t", "\n", "\r"})

(***************************************************************************)
(* parser/parse_aggregator.rs: the states, last state first.  A state is   *)
(* an operator of the input, the pruned fragment, the base, the value      *)
(* built so far (its scheme_type field is the local scheme_type) and the   *)
(* pointer; it ends in the result of the parse.  The text is a sequence    *)
(* of characters, so every position is a character boundary.               *)
(***************************************************************************)
\* AddFragment writing the fragment text as it stands
AddFragmentUnencoded(m, fragment) ==
  IF fragment.some
  THEN Push([m EXCEPT !.hash_start = Len(m.buffer)], <<"#">> \o fragment.s)
  ELSE m

AddFragment(m, fragment) ==
  IF fragment.some
  THEN Push([m EXCEPT !.hash_start = Len(m.buffer)],
            <<"#">> \o percent_encode_with_set(fragment.s, FRAGMENT_SET))
  ELSE m

\* What follows the main loop.
Finish(m, fragment) ==
  LET m1 == IF is_special(m.scheme_type) /\ Len(m.buffer) = m.pathname_start
            THEN Push(m, <<"/">>) ELSE m
  IN Ok(from_buffer(AddFragment(m1, fragment)))

FragmentState(bytes, fragment, m, pointer) ==
  Finish(IF pointer < Len(bytes)
         THEN Push(m, percent_encode_with_set(From(bytes, pointer), FRAGMENT_SET))
         ELSE m, fragment)

QueryState(bytes, fragment, m, pointer) ==
  With(ScanTo(bytes, pointer, {"#"}), LAMBDA query_end :
  With(IF pointer < query_end
       THEN Push(m, percent_encode_with_set(
                      Slice(bytes, pointer, query_end),
                      IF is_special(m.scheme_type) THEN SPECIAL_QUERY_SET
                      ELSE QUERY_SET))
       ELSE m, LAMBDA m1 :
    IF query_end < Len(bytes)
    THEN FragmentState(bytes, fragment,
                       Push([m1 EXCEPT !.hash_start = Len(m1.buffer)], <<"#">>),
                       query_end + 1)
    ELSE Finish(m1, fragment)))

\* The '?' or '#' that ends a path, or the end of the input.
AfterPath(bytes, fragment, m, pointer, at_end) ==
  IF pointer < Len(bytes)
  THEN IF bytes[pointer + 1] = "?"
       THEN QueryState(bytes, fragment,
                       Push([m EXCEPT !.search_start = Len(m.buffer)], <<"?">>),
                       pointer + 1)
       ELSE FragmentState(bytes, fragment,
                          Push([m EXCEPT !.hash_start = Len(m.buffer)], <<"#">>),
                          pointer + 1)
  ELSE Finish(at_end, fragment)

\* Insert "/." before a pathname that starts with "//" when there is no
\* authority and the scheme is not special.
InsertMarker(m) ==
  LET has_authority == /\ m.protocol_end + 2 <= m.host_start
                       /\ Slice(m.buffer, m.protocol_end, m.protocol_end + 2) = <<"/","/">>
  IN IF /\ m.pathname_start + 2 <= Len(m.buffer)
        /\ StartsWith(From(m.buffer, m.pathname_start), <<"/","/">>)
        /\ ~has_authority
        /\ ~is_special(m.scheme_type)
     THEN [m EXCEPT !.buffer = Slice(@, 0, m.pathname_start) \o <<"/",".">>
                                 \o From(@, m.pathname_start),
                    !.pathname_start = @ + 2,
                    !.search_start = IF @ > 0 THEN @ + 2 ELSE @,
                    !.hash_start = IF @ > 0 THEN @ + 2 ELSE @]
     ELSE m

is_single_dot(segment) ==
  segment = <<".">> \/ eq_ignore_ascii_case(segment, <<"%","2","e">>)

is_double_dot(segment) ==
  \/ segment = <<".",".">>
  \/ eq_ignore_ascii_case(segment, <<".","%","2","e">>)
  \/ eq_ignore_ascii_case(segment, <<"%","2","e",".">>)
  \/ eq_ignore_ascii_case(segment, <<"%","2","e","%","2","e">>)

\* The segment loop of the Path state: the path after the segments of input.
RECURSIVE consume_path(_, _, _)
consume_path(input, path, scheme_type) ==
  LET location == FindFirst(input, {"/"})
      last == location < 0
      segment == IF last THEN input ELSE Slice(input, 0, location)
      slash_pos == FindLast(path, {"/"})
      is_drive_letter_path ==
        /\ scheme_type = "File"
        /\ Len(path) >= 3
        /\ path[1] = "/" /\ path[2] \in Alpha /\ path[3] = ":"
        /\ (Len(path) = 3 \/ (Len(path) = 4 /\ path[4] = "/"))
      should_preserve ==
        scheme_type = "File" /\ slash_pos = 2 /\ path[1] = "/" /\ path[2] \in Alpha
      is_all_slashes == \A i \in 1..Len(path) : path[i] = "/"
      shortened ==
        IF \/ slash_pos < 0
           \/ is_drive_letter_path
           \/ should_preserve
           \/ (is_all_slashes /\ slash_pos = 1)
        THEN path ELSE Slice(path, 0, slash_pos)
      path1 ==
        IF is_double_dot(segment)
        THEN IF last /\ ~EndsWith(shortened, <<"/">>) THEN shortened \o <<"/">>
             ELSE shortened
        ELSE IF is_single_dot(segment) /\ last THEN path \o <<"/">>
        ELSE IF ~is_single_dot(segment)
        THEN path \o <<"/">> \o percent_encode_with_set(segment, PATH_SET)
        ELSE path
  IN IF last THEN path1
     ELSE consume_path(From(input, location + 1), path1, scheme_type)

\* str::replacen(c, t, 1)
ReplaceFirst(s, c, t) ==
  LET i == FindFirst(s, {c})
  IN IF i < 0 THEN s ELSE Slice(s, 0, i) \o t \o From(s, i + 1)

\* "/c|/" -> "/c:/" and "c|/" -> "c:/" at the start of a file path
NormalizeDriveBar(np) ==
  LET should_normalize ==
        IF Len(np) >= 3 /\ np[1] = "/" /\ np[2] \in Alpha /\ np[3] = "|"
        THEN Len(np) = 3 \/ np[4] \in {"/", "\\"}
        ELSE IF Len(np) >= 2 /\ np[1] \in Alpha /\ np[2] = "|"
        THEN Len(np) = 2 \/ np[3] \in {"/", "\\"}
        ELSE FALSE
  IN IF should_normalize THEN ReplaceFirst(np, "|", <<":">>) ELSE np

\* The check of the Path state for dot segments in the path text
needs_normalization(input) ==
  \/ ContainsStr(input, <<"/",".">>)
  \/ StartsWith(input, <<".">>)
  \/ ContainsStr(input, <<"%","2","e">>)
  \/ ContainsStr(input, <<"%","2","E">>)

PathState(bytes, fragment, m, pointer) ==
  With(ScanTo(bytes, pointer, {"?", "#"}), LAMBDA path_end :
  With(Slice(bytes, pointer, path_end), LAMBDA raw :
  With(IF is_special(m.scheme_type) /\ HasChar(raw, "\\")
       THEN ReplaceChar(raw, "\\", "/") ELSE raw, LAMBDA np0 :
  With(IF m.scheme_type = "File" /\ HasChar(np0, "|")
       THEN NormalizeDriveBar(np0) ELSE np0, LAMBDA normalized_path :
  With(IF StartsWith(normalized_path, <<"/">>) THEN Tail(normalized_path)
       ELSE normalized_path, LAMBDA input :
  With(From(m.buffer, m.pathname_start), LAMBDA path :
  With(~needs_normalization(input) /\ path = <<>>, LAMBDA fast :
  With(IF fast
       THEN Push(m, <<"/">> \o percent_encode_with_set(input, PATH_SET))
       ELSE [m EXCEPT !.buffer = Slice(@, 0, m.pathname_start)
                                 \o consume_path(input, path, m.scheme_type)],
       LAMBDA m1 :
    AfterPath(bytes, fragment, m1, path_end,
              IF fast THEN m1 ELSE InsertMarker(m1))))))))))

\* A segment of an opaque path without authority: controls, DEL and
\* non-ASCII encoded, inner spaces kept, the last trailing space as %20.
EncodeOpaqueSegment(segment) ==
  LET trimmed_segment == TrimEnd(segment, " ")
      trailing_spaces == Len(segment) - Len(trimmed_segment)
  IN percent_encode_with_set(trimmed_segment, Controls \cup {Del, NonAscii})
     \o (IF trailing_spaces > 0
         THEN [i \in 1..(trailing_spaces - 1) |-> " "] \o <<"%","2","0">>
         ELSE <<>>)

\* The loop of the OpaquePath state over the pieces of the path.
RECURSIVE opaque_segments(_, _, _, _, _, _)
opaque_segments(parts, i, segments, lead, trail, has_authority) ==
  IF i > Len(parts) THEN segments
  ELSE
    LET segment == parts[i]
        next ==
          IF segment = <<>>
          THEN IF \/ (i = 1 /\ lead)
                  \/ (i = Len(parts) /\ trail)
               THEN segments
               ELSE Append(segments, <<>>)
          ELSE IF is_double_dot(segment)
          THEN IF segments = <<>> THEN segments
               ELSE SubSeq(segments, 1, Len(segments) - 1)
          ELSE IF is_single_dot(segment) THEN segments
          ELSE Append(segments,
                      IF has_authority
                      THEN percent_encode_with_set(segment, OPAQUE_PATH_SET)
                      ELSE EncodeOpaqueSegment(segment))
    IN opaque_segments(parts, i + 1, next, lead, trail,
                       has_authority)

\* Trailing spaces of the pathname before '?' or '#': all but the last
\* literal, the last as %20.
EncodeTrailingSpaces(m) ==
  LET current_pathname == From(m.buffer, m.pathname_start)
      trailing_spaces == Len(current_pathname) - Len(TrimEnd(current_pathname, " "))
  IN IF trailing_spaces > 0
     THEN [m EXCEPT !.buffer = Slice(@, 0, Len(@) - 1) \o <<"%","2","0">>]
     ELSE m

OpaquePathState(bytes, fragment, m, pointer) ==
  With(ScanTo(bytes, pointer, {"?", "#"}), LAMBDA path_end :
  With(Slice(bytes, pointer, path_end), LAMBDA path_str :
  With(StartsWith(path_str, <<"/">>), LAMBDA lead :
  With(EndsWith(path_str, <<"/">>) /\ Len(path_str) > 1, LAMBDA trail :
  With(opaque_segments(Split(path_str, "/"), 1, <<>>, lead, trail,
                       m.host_start < m.host_end), LAMBDA segments :
  With(IF pointer < path_end
       THEN Push(m, (IF lead THEN <<"/">> ELSE <<>>)
                    \o Join(segments, "/")
                    \o (IF trail /\ segments /= <<>> THEN <<"/">> ELSE <<>>))
       ELSE m, LAMBDA m1 :
  With(IF path_end < Len(bytes) THEN EncodeTrailingSpaces(m1) ELSE m1,
       LAMBDA m2 :
    AfterPath(bytes, fragment, m2, path_end, InsertMarker(m2)))))))))

\* [a-zA-Z][:|] followed by one of / \ ? # or by the end of the input
is_windows_drive_letter(bytes, pos) ==
  IF pos + 1 >= Len(bytes) THEN FALSE
  ELSE IF bytes[pos + 1] \notin Alpha \/ bytes[pos + 2] \notin {":", "|"} THEN FALSE
  ELSE pos + 2 >= Len(bytes) \/ bytes[pos + 3] \in {"/", "\\", "?", "#"}

\* "/X:" written as the start of a file path
PushDrive(m, letter) ==
  Push([m EXCEPT !.pathname_start = Len(m.buffer)], <<"/", letter, ":">>)

\* The host of the FileHost state, written to the buffer without the
\* forbidden-character checks of parse_host_and_port.
FileHostWrite(m, host_str) ==
  IF host_str = <<>> THEN Ok(m)
  ELSE IF HasChar(host_str, "%") /\ ~PercentShapeOk(host_str) THEN Err("InvalidHost")
  ELSE
    With(IF HasChar(host_str, "%") THEN percent_decode(host_str)
         ELSE OkVal(host_str), LAMBDA decoded :
    With(decoded.val, LAMBDA normalized_host :
    With(IF AllIn(normalized_host, Printable \cup Controls \cup {Del})
         THEN OkVal(normalized_host)
         ELSE domain_to_ascii(normalized_host), LAMBDA processed :
    With(processed.val, LAMBDA processed_host :
      IF ~decoded.ok THEN Err(decoded.err)
      ELSE IF to_ascii_lowercase(normalized_host) = <<"x","n","-","-">>
      THEN Err("InvalidHost")
      ELSE IF ~processed.ok THEN Err(processed.err)
      ELSE IF eq_ignore_ascii_case(processed_host,
                                   <<"l","o","c","a","l","h","o","s","t">>)
      THEN Ok(m)
      ELSE IF /\ HasChar(processed_host, ":")
              /\ ~(StartsWith(processed_host, <<"[">>)
                   /\ EndsWith(processed_host, <<"]">>))
      THEN Err("InvalidHost")
      ELSE IF StartsWith(processed_host, <<"[">>)
      THEN IF ~EndsWith(processed_host, <<"]">>) THEN Err("InvalidHost")
           ELSE With(parse_ipv6(processed_host), LAMBDA segments :
                  IF ~segments.ok THEN Err(segments.err)
                  ELSE Ok(Push(m, processed_host)))
      ELSE Ok(Push(m, to_ascii_lowercase(processed_host)))))))

\* percent_decode gives a drive letter ("C:" or "C|") at the start of the host
is_encoded_drive(host_str, decoded) ==
  /\ HasChar(host_str, "%")
  /\ decoded.ok
  /\ Len(decoded.val) >= 2
  /\ decoded.val[1] \in Alpha
  /\ decoded.val[2] \in {":", "|"}

FileHostState(bytes, fragment, m, pointer) ==
  With(ScanTo(bytes, pointer, {"/", "\\", "?", "#"}), LAMBDA host_end :
  With(Slice(bytes, pointer, host_end), LAMBDA host_str :
    IF is_encoded_drive(host_str, percent_decode(host_str)) THEN Err("InvalidHost")
    ELSE IF is_windows_drive_letter(bytes, pointer)
    THEN With(PushDrive([m EXCEPT !.host_start = Len(m.buffer),
                                  !.host_end = Len(m.buffer)],
                        bytes[pointer + 1]), LAMBDA m1 :
           IF pointer + 2 < Len(bytes)
              /\ bytes[pointer + 3] \in {"/", "\\", "?", "#"}
           THEN PathState(bytes, fragment, m1, pointer + 2)
           ELSE Finish(m1, fragment))
    ELSE With(FileHostWrite([m EXCEPT !.host_start = Len(m.buffer)], host_str),
              LAMBDA written :
                IF ~written.ok THEN written
                ELSE PathState(bytes, fragment,
                               [written.url EXCEPT
                                  !.host_end = Len(written.url.buffer),
                                  !.pathname_start = Len(written.url.buffer)],
                               host_end))))

FileSlashState(bytes, fragment, m, pointer) ==
  IF pointer < Len(bytes) /\ bytes[pointer + 1] \in {"/", "\\"}
  THEN FileHostState(bytes, fragment, m, pointer + 1)
  ELSE PathState(bytes, fragment, [m EXCEPT !.pathname_start = Len(m.buffer)],
                 pointer - 1)

FileState(bytes, fragment, m, pointer) ==
  LET m1 == [Push(m, <<"/","/">>) EXCEPT !.host_start = Len(m.buffer) + 2,
                                         !.host_end = Len(m.buffer) + 2]
  IN IF is_windows_drive_letter(bytes, pointer)
     THEN PathState(bytes, fragment, PushDrive(m1, bytes[pointer + 1]), pointer + 2)
     ELSE IF pointer < Len(bytes) /\ bytes[pointer + 1] \in {"/", "\\"}
     THEN FileSlashState(bytes, fragment, m1, pointer + 1)
     ELSE PathState(bytes, fragment, [m1 EXCEPT !.pathname_start = Len(m1.buffer)],
                    pointer)

\* The credentials before the last '@' of the authority, written to the
\* buffer.
WriteCredentials(m, credentials) ==
  With(FindFirst(credentials, {":"}), LAMBDA colon :
  With(IF colon < 0 THEN credentials ELSE Slice(credentials, 0, colon),
       LAMBDA user_str :
  With(IF colon < 0 THEN <<>> ELSE From(credentials, colon + 1), LAMBDA pass_str :
  With(Push(m, percent_encode_userinfo(user_str)), LAMBDA mu :
  With([mu EXCEPT !.username_end = Len(mu.buffer)], LAMBDA mu1 :
  With(IF pass_str = <<>> THEN [mu1 EXCEPT !.password_end = mu1.username_end]
       ELSE With(percent_encode_userinfo(pass_str), LAMBDA encoded :
              [mu1 EXCEPT !.buffer = @ \o <<":">> \o encoded,
                          !.password_end = Len(mu1.buffer) + 1 + Len(encoded)]),
       LAMBDA mp :
    IF credentials /= <<>> /\ credentials /= <<":">>
    THEN IF \/ mp.username_end > mp.protocol_end + 2
            \/ mp.password_end > mp.username_end
         THEN Push(mp, <<"@">>) ELSE mp
    ELSE [m EXCEPT !.username_end = m.protocol_end + 2,
                   !.password_end = m.protocol_end + 2]))))))

\* The end of the Authority state: the path starts where the host and port
\* end unless it was placed already.
AfterAuthority(bytes, fragment, m, auth_end, special) ==
  LET m2 == IF m.pathname_start = 0
            THEN [m EXCEPT !.pathname_start = Len(m.buffer)]
            ELSE m
  IN IF special THEN PathState(bytes, fragment, m2, auth_end)
     ELSE OpaquePathState(bytes, fragment, m2, auth_end)

AuthorityState(bytes, fragment, m, pointer) ==
  With(is_special(m.scheme_type), LAMBDA special :
  With(IF special THEN ScanWhile(bytes, pointer, {"/", "\\"}) ELSE pointer,
       LAMBDA auth_start :
  With(ScanTo(bytes, auth_start,
              IF special THEN {"/", "?", "#", "\\"} ELSE {"/", "?", "#"}),
       LAMBDA auth_end :
  With(Slice(bytes, auth_start, auth_end), LAMBDA authority :
  With(FindLast(authority, {"@"}), LAMBDA at_idx :
  With(From(authority, at_idx + 1), LAMBDA host_part :
    IF at_idx >= 0 /\ m.scheme_type /= "File" /\ host_part = <<>>
    THEN Err("InvalidHost")
    ELSE IF at_idx < 0 /\ StartsWith(authority, <<":">>) THEN Err("InvalidHost")
    ELSE IF /\ at_idx < 0
            /\ special /\ m.scheme_type /= "File"
            /\ authority = <<>>
            /\ ~(auth_end < Len(bytes) /\ bytes[auth_end + 1] = "/")
    THEN Err("InvalidHost")
    ELSE With(IF at_idx >= 0
              THEN WriteCredentials(m, Slice(authority, 0, at_idx)) ELSE m,
              LAMBDA mc :
         With(parse_host_and_port(host_part,
                                  [mc EXCEPT !.host_start = Len(mc.buffer)],
                                  m.scheme_type), LAMBDA parsed :
           IF ~parsed.ok THEN parsed
           ELSE AfterAuthority(bytes, fragment, parsed.url, auth_end,
                               special)))))))))

PathOrAuthorityState(bytes, fragment, m, pointer) ==
  IF pointer + 1 < Len(bytes) /\ bytes[pointer + 1] = "/" /\ bytes[pointer + 2] = "/"
  THEN AuthorityState(bytes, fragment, Push(m, <<"/","/">>), pointer + 2)
  ELSE OpaquePathState(bytes, fragment,
                       [m EXCEPT !.host_start = Len(m.buffer),
                                 !.host_end = Len(m.buffer),
                                 !.pathname_start = Len(m.buffer)],
                       pointer)

SpecialAuthoritySlashesState(bytes, fragment, m, pointer) ==
  AuthorityState(bytes, fragment, Push(m, <<"/","/">>),
                 IF pointer < Len(bytes) /\ bytes[pointer + 1] \in {"/", "\\"}
                 THEN IF pointer + 1 < Len(bytes)
                         /\ bytes[pointer + 2] \in {"/", "\\"}
                      THEN pointer + 2
                      ELSE pointer + 1
                 ELSE pointer)

\* parse_aggregator.rs copy_authority_from_base: the five offsets and the
\* authority text of the base; components.port is left as it is.
copy_authority_from_base(m, base) ==
  IF ~GetIs(base.buffer, base.protocol_end, base.protocol_end + 2, <<"/","/">>)
  THEN [m EXCEPT !.username_end = m.protocol_end,
                 !.password_end = m.protocol_end,
                 !.host_start = m.protocol_end,
                 !.host_end = m.protocol_end,
                 !.pathname_start = m.protocol_end]
  ELSE LET buf == m.buffer \o Slice(base.buffer, base.protocol_end,
                                    base.pathname_start)
           offset == Len(buf) - base.pathname_start
       IN [m EXCEPT !.buffer = buf,
                    !.username_end = base.username_end + offset,
                    !.password_end = base.password_end + offset,
                    !.host_start = base.host_start + offset,
                    !.host_end = base.host_end + offset,
                    !.pathname_start = Len(buf)]

\* url_aggregator.rs UrlAggregator::copy_authority_from
copy_authority_from(self, base) ==
  IF ~GetIs(base.buffer, base.protocol_end, base.protocol_end + 2, <<"/","/">>)
  THEN [self EXCEPT !.username_end = self.protocol_end,
                    !.password_end = self.protocol_end,
                    !.host_start = self.protocol_end,
                    !.host_end = self.protocol_end,
                    !.pathname_start = self.protocol_end]
  ELSE
    LET has_user == base.username_end > base.protocol_end + 2
        has_pass == base.password_end > base.username_end
        b1 == self.buffer \o <<"/","/">>
              \o (IF has_user
                  THEN Slice(base.buffer, base.protocol_end + 2, base.username_end)
                  ELSE <<>>)
        username_end_1 == IF has_user THEN Len(b1) ELSE self.protocol_end + 2
        b2 == b1 \o (IF has_pass
                     THEN Slice(base.buffer, base.username_end, base.password_end)
                     ELSE <<>>)
        password_end_1 == IF has_pass THEN Len(b2) ELSE username_end_1
        b3 == IF has_user \/ has_pass THEN b2 \o <<"@">> ELSE b2
        b4 == b3 \o Slice(base.buffer, base.host_start, base.host_end)
        b5 == IF base.host_end < base.pathname_start
              THEN b4 \o Slice(base.buffer, base.host_end, base.pathname_start)
              ELSE b4
    IN [self EXCEPT !.buffer = b5,
                    !.username_end = username_end_1,
                    !.password_end = password_end_1,
                    !.host_start = Len(b3),
                    !.host_end = Len(b4),
                    !.port = base.port,
                    !.pathname_start = Len(b5)]

\* A copy that leaves the base path behind
CopyNoBasePath(m, base) == m

\* The pathname of the base, and its query when it has one, appended.
CopyBasePath(m, base) ==
  Push(m, Slice(base.buffer, base.pathname_start,
                get_pathname_end(base, Len(base.buffer))))

CopyBaseQuery(m, base) ==
  IF base.search_start > 0
  THEN Push([m EXCEPT !.search_start = Len(m.buffer)],
            Slice(base.buffer, base.search_start,
                  get_search_end(base, Len(base.buffer))))
  ELSE m

\* The base pathname starts with a drive letter ("/C:") that a file
\* reference without its own drive letter keeps.
keeps_base_drive(bytes, pointer, scheme_type, base_pathname) ==
  /\ scheme_type = "File"
  /\ ~is_windows_drive_letter(bytes, pointer)
  /\ Len(base_pathname) >= 3
  /\ base_pathname[1] = "/"
  /\ base_pathname[2] \in Alpha
  /\ base_pathname[3] = ":"

RelativeSlashState(bytes, fragment, base, m, pointer) ==
  IF /\ pointer < Len(bytes)
     /\ (bytes[pointer + 1] = "/"
         \/ (is_special(m.scheme_type) /\ bytes[pointer + 1] = "\\"))
  THEN IF m.scheme_type = "File"
       THEN FileHostState(bytes, fragment, Push(m, <<"/","/">>), pointer + 1)
       ELSE AuthorityState(bytes, fragment, Push(m, <<"/","/">>), pointer + 1)
  ELSE IF ~base.some THEN Err("RelativeUrlWithoutBase")
  ELSE
    With(copy_authority_from(m, base.url), LAMBDA temp_url :
    With(pathname(base.url), LAMBDA base_pathname :
      PathState(bytes, fragment,
                IF keeps_base_drive(bytes, pointer, m.scheme_type, base_pathname)
                THEN Push(temp_url, Slice(base_pathname, 0, 3))
                ELSE temp_url,
                pointer)))

\* The '?' or '#' at pointer after a path that is complete, or the end.
AfterDrive(bytes, fragment, m, pointer) ==
  IF pointer < Len(bytes) /\ bytes[pointer + 1] = "?"
  THEN QueryState(bytes, fragment,
                  Push([m EXCEPT !.search_start = Len(m.buffer)], <<"?">>),
                  pointer + 1)
  ELSE IF pointer < Len(bytes) /\ bytes[pointer + 1] = "#"
  THEN FragmentState(bytes, fragment,
                     Push([m EXCEPT !.hash_start = Len(m.buffer)], <<"#">>),
                     pointer + 1)
  ELSE Finish(m, fragment)

RelativeState(bytes, fragment, base, m0, pointer) ==
  IF ~base.some THEN Err("RelativeUrlWithoutBase")
  ELSE
    With(base.url, LAMBDA b :
    With(IF m0.protocol_end = 0
         THEN [m0 EXCEPT !.buffer = @ \o protocol(b),
                         !.protocol_end = Len(m0.buffer) + Len(protocol(b)),
                         !.scheme_type = b.scheme_type]
         ELSE m0, LAMBDA m :
    With(copy_authority_from_base(m, b), LAMBDA copied :
      IF pointer >= Len(bytes)
      THEN Ok(AddFragment(CopyBaseQuery(CopyBasePath(copied, b), b), fragment))
      ELSE IF m.scheme_type = "File" /\ is_windows_drive_letter(bytes, pointer)
      THEN With(PushDrive(copied, bytes[pointer + 1]), LAMBDA m1 :
             IF pointer + 2 < Len(bytes) /\ bytes[pointer + 3] \in {"/", "\\"}
             THEN PathState(bytes, fragment, m1, pointer + 2)
             ELSE AfterDrive(bytes, fragment, m1, pointer + 2))
      ELSE IF bytes[pointer + 1] = "/"
              \/ (is_special(m.scheme_type) /\ bytes[pointer + 1] = "\\")
      THEN RelativeSlashState(bytes, fragment, base, m, pointer + 1)
      ELSE IF bytes[pointer + 1] = "?"
      THEN With(CopyBasePath(copied, b), LAMBDA m1 :
             QueryState(bytes, fragment,
                        Push([m1 EXCEPT !.search_start = Len(m1.buffer)], <<"?">>),
                        pointer + 1))
      ELSE IF bytes[pointer + 1] = "#"
      THEN With(CopyBaseQuery(CopyBasePath(copied, b), b), LAMBDA m1 :
             FragmentState(bytes, fragment,
                           Push([m1 EXCEPT !.hash_start = Len(m1.buffer)], <<"#">>),
                           pointer + 1))
      ELSE With(CopyBasePath(IF has_opaque_path(b) THEN m ELSE copied, b),
                LAMBDA m1 :
           With(FindLast(From(m1.buffer, m1.pathname_start), {"/"}),
                LAMBDA last_slash :
             PathState(bytes, fragment,
                       IF last_slash >= 0
                       THEN [m1 EXCEPT !.buffer =
                               Slice(@, 0, m1.pathname_start + last_slash)]
                       ELSE m1,
                       pointer))))))

SpecialRelativeOrAuthorityState(bytes, fragment, base, m, pointer) ==
  IF pointer + 1 < Len(bytes) /\ bytes[pointer + 1] = "/" /\ bytes[pointer + 2] = "/"
  THEN IF m.scheme_type = "File"
       THEN FileHostState(bytes, fragment, Push(m, <<"/","/">>), pointer + 2)
       ELSE AuthorityState(bytes, fragment, Push(m, <<"/","/">>), pointer + 2)
  ELSE RelativeState(bytes, fragment, base, m, pointer)

\* NoScheme without the test for a base: the text is read as a path
NoSchemeStateWithoutBase(bytes, fragment, base, m, pointer) ==
  IF ~base.some THEN PathState(bytes, fragment, m, pointer)
  ELSE RelativeState(bytes, fragment, base, m, pointer)

\* NoScheme without the test for an opaque base path
NoSchemeStateAnyBase(bytes, fragment, base, m, pointer) ==
  IF ~base.some THEN Err("RelativeUrlWithoutBase")
  ELSE RelativeState(bytes, fragment, base, m, pointer)

NoSchemeState(bytes, fragment, base, m, pointer) ==
  IF ~base.some THEN Err("RelativeUrlWithoutBase")
  ELSE IF has_opaque_path(base.url) /\ ~(pointer >= Len(bytes) /\ fragment.some)
  THEN Err("RelativeUrlWithoutBase")
  ELSE IF pointer >= Len(bytes)
  THEN LET b == base.url
           temp_url == IF b.hash_start > 0
                       THEN [b EXCEPT !.buffer = Slice(@, 0, b.hash_start),
                                      !.hash_start = 0]
                       ELSE b
       IN Ok(AddFragment(temp_url, fragment))
  ELSE RelativeState(bytes, fragment, base, m, pointer)

\* State::Scheme once the ':' at scheme_end has been found
SchemeState(bytes, fragment, base, m, scheme, pointer) ==
  With([m EXCEPT !.buffer = @ \o scheme \o <<":">>,
                 !.protocol_end = Len(m.buffer) + Len(scheme) + 1,
                 !.scheme_type = get_scheme_type(scheme)], LAMBDA m1 :
    IF /\ base.some
       /\ is_special(m1.scheme_type)
       /\ base.url.scheme_type = m1.scheme_type
    THEN SpecialRelativeOrAuthorityState(bytes, fragment, base, m1, pointer)
    ELSE IF scheme = <<"f","i","l","e">>
    THEN FileState(bytes, fragment, m1, pointer)
    ELSE IF is_special(m1.scheme_type)
    THEN SpecialAuthoritySlashesState(bytes, fragment, m1, pointer)
    ELSE PathOrAuthorityState(bytes, fragment, m1, pointer))

\* State::SchemeStart and the scan of State::Scheme: without a scheme the
\* input is read again from its start in State::NoScheme.
SchemeStartState(bytes, fragment, base, m, pointer) ==
  With(pointer < Len(bytes) /\ bytes[pointer + 1] \in Alpha, LAMBDA alpha :
  With(ScanWhile(bytes, pointer, AlphaNum \cup {"+", "-", "."}),
       LAMBDA scheme_end :
    IF alpha /\ scheme_end < Len(bytes) /\ bytes[scheme_end + 1] = ":"
    THEN SchemeState(bytes, fragment, base, m,
                     to_ascii_lowercase(Slice(bytes, pointer, scheme_end)),
                     scheme_end + 1)
    ELSE IF ~base.some /\ (alpha \/ pointer >= Len(bytes))
    THEN Err("InvalidScheme")
    ELSE NoSchemeState(bytes, fragment, base, m, IF alpha THEN 0 ELSE pointer)))

(***************************************************************************)
(* character_sets.rs                                                       *)
(***************************************************************************)
classify_hostname_byte(b) ==
  IF b \notin Printable THEN 0
  ELSE IF b \in Lower \cup Digits \cup {".", "-"} THEN 1
  ELSE IF b \in Upper THEN 2
  ELSE IF b \in {":", "/"} THEN 3
  ELSE IF b \in {"@", "?", "#", "%", "\\"} THEN 4
  ELSE 0

classify_path_byte(b) ==
  IF b \in AlphaNum \cup {"/", "-", "_", ".", "~", "%"} THEN 1
  ELSE IF b \in {"?", "#"} THEN 2
  ELSE 0

(***************************************************************************)
(* parser/parse_aggregator.rs: the fast path for http:// and https://      *)
(***************************************************************************)
NoneUrl == [some |-> FALSE, url |-> NoUrl]

SomeUrl(u) == [some |-> TRUE, url |-> u]

\* The query of the fast path, from the '?' at pos.
FastQuery(bytes, m, pos) ==
  LET query_end == ScanTo(bytes, pos + 1, {"#"})
      query == Slice(bytes, pos + 1, query_end)
  IN IF \E i \in 1..Len(query) :
          query[i] \notin Printable \/ query[i] \in {" ", "'", "\"", "<", ">"}
     THEN NoneUrl
     ELSE SomeUrl(Push([m EXCEPT !.search_start = Len(m.buffer)], <<"?">> \o query))

\* The path of the fast path, from pos.
FastPath(bytes, m0, pos) ==
  LET m == [m0 EXCEPT !.pathname_start = Len(m0.buffer)]
      path_slice == From(bytes, pos)
      path_end == ScanWhile(bytes, pos,
                            {c \in Printable : classify_path_byte(c) = 1})
  IN IF pos >= Len(bytes) THEN SomeUrl(Push(m, <<"/">>))
     ELSE IF bytes[pos + 1] /= "/" THEN NoneUrl
     ELSE IF \/ ContainsStr(path_slice, <<"/",".",".">>)
             \/ ContainsStr(path_slice, <<"/",".">>)
             \/ ContainsStr(path_slice, <<"%","2","e">>)
             \/ ContainsStr(path_slice, <<"%","2","E">>)
     THEN NoneUrl
     ELSE IF path_end < Len(bytes) /\ classify_path_byte(bytes[path_end + 1]) /= 2
     THEN NoneUrl
     ELSE LET m1 == Push(m, Slice(bytes, pos, path_end))
          IN IF path_end < Len(bytes) /\ bytes[path_end + 1] = "?"
             THEN FastQuery(bytes, m1, path_end)
             ELSE SomeUrl(m1)

\* The port of the fast path, from the ':' at pos.
FastPort(bytes, m, pos) ==
  LET port_start == pos + 1
      port_end == ScanWhile(bytes, port_start, Digits)
      port_str == Slice(bytes, port_start, port_end)
      port_num == parse_port(port_str)
  IN IF port_end = port_start THEN NoneUrl
     ELSE IF port_end < Len(bytes) /\ bytes[port_end + 1] /= "/" THEN NoneUrl
     ELSE IF port_num = NoPort THEN NoneUrl
     ELSE FastPath(bytes,
                   [m EXCEPT !.port = port_num,
                             !.buffer = IF default_port(m.scheme_type) /= port_num
                                        THEN @ \o <<":">> \o port_str ELSE @],
                   port_end)

\* The host of the fast path, from pos.
FastHost(bytes, m0, pos) ==
  LET m == [m0 EXCEPT !.host_start = Len(m0.buffer)]
      host_end_pos == ScanWhile(bytes, pos, Lower \cup Digits \cup {".", "-"} \cup Upper)
      host_str == Slice(bytes, pos, host_end_pos)
      m1 == Push(m, to_ascii_lowercase(host_str))
      m2 == [m1 EXCEPT !.host_end = Len(m1.buffer)]
  IN IF host_end_pos < Len(bytes)
        /\ classify_hostname_byte(bytes[host_end_pos + 1]) /= 3
     THEN NoneUrl
     ELSE IF host_str = <<>> THEN NoneUrl
     ELSE IF is_ipv4(host_str) THEN NoneUrl
     ELSE IF has_punycode(host_str) THEN NoneUrl
     ELSE IF host_end_pos < Len(bytes) /\ bytes[host_end_pos + 1] = ":"
     THEN FastPort(bytes, m2, host_end_pos)
     ELSE FastPath(bytes, m2, host_end_pos)

\* The scheme of the fast path, written to an empty buffer
FastScheme(https) ==
  IF https
  THEN [NoUrl EXCEPT !.buffer = <<"h","t","t","p","s",":","/","/">>,
                     !.protocol_end = 6, !.scheme_type = "Https"]
  ELSE [NoUrl EXCEPT !.buffer = <<"h","t","t","p",":","/","/">>,
                     !.protocol_end = 5, !.scheme_type = "Http"]

\* The credentials of the fast path before the '@' at cred_end
FastCredentials(bytes, m, cred_str, cred_end) ==
  With(FindFirst(cred_str, {":"}), LAMBDA colon_pos :
  With(IF colon_pos < 0 THEN cred_str ELSE Slice(cred_str, 0, colon_pos),
       LAMBDA user_str :
  With(IF colon_pos < 0 THEN <<>> ELSE From(cred_str, colon_pos + 1),
       LAMBDA pass_str :
  With(Push(m, percent_encode_userinfo(user_str)), LAMBDA mu :
  With([mu EXCEPT !.username_end = Len(mu.buffer)], LAMBDA mu1 :
  With(IF pass_str = <<>> THEN [mu1 EXCEPT !.password_end = mu1.username_end]
       ELSE With(percent_encode_userinfo(pass_str), LAMBDA encoded :
              [mu1 EXCEPT !.buffer = @ \o <<":">> \o encoded,
                          !.password_end = Len(mu1.buffer) + 1 + Len(encoded)]),
       LAMBDA mp :
    IF user_str = <<>> /\ pass_str = <<>>
    THEN FastHost(bytes,
                  [m EXCEPT !.username_end = Len(m.buffer),
                            !.password_end = Len(m.buffer)],
                  cred_end + 1)
    ELSE IF user_str = <<>> THEN NoneUrl
    ELSE FastHost(bytes, Push(mp, <<"@">>), cred_end + 1)))))))

try_http_fast_path(bytes) ==
  With(StartsWith(bytes, <<"h","t","t","p","s",":","/","/">>), LAMBDA https :
  With(StartsWith(bytes, <<"h","t","t","p",":","/","/">>), LAMBDA http :
  With(IF https THEN 8 ELSE 7, LAMBDA pos :
  With(ScanTo(bytes, pos, {"@", "/", "?", "#"}), LAMBDA cred_end :
    IF ~https /\ ~http THEN NoneUrl
    ELSE IF pos >= Len(bytes) THEN NoneUrl
    ELSE IF ~(cred_end < Len(bytes) /\ bytes[cred_end + 1] = "@")
    THEN FastHost(bytes, FastScheme(https), pos)
    ELSE FastCredentials(bytes, FastScheme(https), Slice(bytes, pos, cred_end),
                         cred_end)))))

(***************************************************************************)
(* parser/parse_aggregator.rs: parse_url_aggregator and validate_url       *)
(***************************************************************************)
\* The main loop, from State::SchemeStart with an empty buffer.
StateMachine(input, fragment, base) ==
  SchemeStartState(input, fragment, base, NoUrl, 0)

\* The cleaning without the removal of tab, LF and CR
CleanedAtEndsOnly(input) == TrimC0Space(input)

\* The cleaning that opens parse_url_aggregator
Cleaned(input) ==
  IF has_tabs_or_newline(input) THEN clean_tabs_and_newlines(input)
  ELSE TrimC0Space(input)

\* The fast path for an input without base, then the state machine.
ParsePruned(pruned, base) ==
  With(try_http_fast_path(pruned[1]), LAMBDA fast_result :
    IF ~base.some /\ Len(pruned[1]) >= 7 /\ fast_result.some
    THEN Ok(AddFragment(fast_result.url, pruned[2]))
    ELSE StateMachine(pruned[1], pruned[2], base))

\* parse_url_aggregator once the base text has become a value (or none).
ParseWith(input0, base) == ParsePruned(prune_fragment(Cleaned(input0)), base)

parse_url_aggregator(input, base_url) ==
  With(IF base_url.some THEN ParseWith(base_url.s, NoneUrl) ELSE Ok(NoUrl),
       LAMBDA base :
    IF ~base.ok THEN base
    ELSE ParseWith(input, IF base_url.some THEN SomeUrl(base.url) ELSE NoneUrl))

validate_url(input, base_url) ==
  With(TrimC0Space(input), LAMBDA trimmed :
  With(Slice(trimmed, 0, MinOf({Len(trimmed), 32})), LAMBDA scan :
    IF trimmed = <<>> /\ ~base_url.some THEN Err("InvalidScheme")
    ELSE IF ~base_url.some /\ ~HasChar(trimmed, ":") THEN Err("InvalidScheme")
    ELSE IF ~base_url.some /\ trimmed /= <<>> /\ trimmed[1] \notin Alpha
    THEN Err("InvalidScheme")
    ELSE IF ~base_url.some
            /\ \E i \in 1..Len(scan) : scan[i] \in {" ", "\t", "<", ">", "{", "}"}
    THEN Err("InvalidHost")
    ELSE With(parse_url_aggregator(input, base_url), LAMBDA parsed :
           IF parsed.ok THEN Ok(NoUrl) ELSE parsed)))

\* url_aggregator.rs: origin().  The origin of the inner URL of a blob URL
\* is that of an http or https URL, so the call inside is the special case.
SpecialOrigin(u) == protocol(u) \o <<"/","/">> \o host(u)

NullOrigin == <<"n","u","l","l">>

origin(u) ==
  IF TrimEnd(protocol(u), ":") = <<"b","l","o","b">>
  THEN With(parse_url_aggregator(pathname(u), None), LAMBDA inner_url :
         IF inner_url.ok
            /\ TrimEnd(protocol(inner_url.url), ":")
                  \in {<<"h","t","t","p">>, <<"h","t","t","p","s">>}
         THEN SpecialOrigin(inner_url.url)
         ELSE NullOrigin)
  ELSE IF is_special(u.scheme_type) THEN SpecialOrigin(u)
  ELSE NullOrigin

(***************************************************************************)
(* url_aggregator.rs: the setters.  A setter ends in the value it leaves,  *)
(* what it returned, and whether it panicked (a range whose start lies     *)
(* after its end, or a position beyond the buffer).                        *)
(***************************************************************************)
Set(u, ret) == [url |-> u, ret |-> ret, panic |-> FALSE]

Panicked(u) == [url |-> u, ret |-> FALSE, panic |-> TRUE]

normalize_hostname(host_str) ==
  IF StartsWith(host_str, <<"[">>) THEN OkVal(host_str)
  ELSE IF AllIn(host_str, Printable \cup Controls \cup {Del})
  THEN OkVal(to_ascii_lowercase(host_str))
  ELSE domain_to_ascii(host_str)

parse_host_port_parts(host_str) ==
  IF StartsWith(host_str, <<"[">>)
  THEN LET bracket_end == FindFirst(host_str, {"]"})
           port_part == From(host_str, bracket_end + 1)
       IN IF bracket_end < 0 THEN <<host_str, None>>
          ELSE <<Slice(host_str, 0, bracket_end + 1),
                 IF StartsWith(port_part, <<":">>) THEN Some(Tail(port_part))
                 ELSE None>>
  ELSE LET colon_pos == FindLast(host_str, {":"})
       IN IF colon_pos < 0 THEN <<host_str, None>>
          ELSE <<Slice(host_str, 0, colon_pos), Some(From(host_str, colon_pos + 1))>>

\* String::replace_range and String::insert_str accept the range
RangeOk(u, start, end) == start <= end /\ end <= Len(u.buffer)

\* Adjust with one rule for insertions and replacements
AdjustFromEnd(offset, start, end, delta) ==
  IF offset >= end THEN offset + delta ELSE offset

\* One offset after a replacement of [start, end) that changes the length
\* by delta.
Adjust(offset, start, end, delta) ==
  IF start = end THEN (IF offset > start THEN offset + delta ELSE offset)
  ELSE (IF offset >= end THEN offset + delta ELSE offset)

replace_range(u, start, end, replacement) ==
  LET delta == Len(replacement) - (end - start)
  IN [u EXCEPT !.buffer = Slice(@, 0, start) \o replacement \o From(@, end),
               !.protocol_end = Adjust(@, start, end, delta),
               !.username_end = Adjust(@, start, end, delta),
               !.password_end = Adjust(@, start, end, delta),
               !.host_start = Adjust(@, start, end, delta),
               !.host_end = Adjust(@, start, end, delta),
               !.pathname_start = Adjust(@, start, end, delta),
               !.search_start = Adjust(@, start, end, delta),
               !.hash_start = Adjust(@, start, end, delta)]

\* String::insert_str
InsertAt(buf, pos, t) == Slice(buf, 0, pos) \o t \o From(buf, pos)

\* offset += delta when offset >= pos
Shift(offset, pos, delta) == IF offset >= pos THEN offset + delta ELSE offset

\* set_href that drops the held value before it parses the new text
SetHrefDropping(u, new_href) ==
  With(parse_url_aggregator(new_href, None), LAMBDA new_url :
    IF new_url.ok THEN Set(new_url.url, TRUE) ELSE Set(NoUrl, FALSE))

set_href(u, new_href) ==
  With(parse_url_aggregator(new_href, None), LAMBDA new_url :
    IF new_url.ok THEN Set(new_url.url, TRUE) ELSE Set(u, FALSE))

set_protocol(u, protocol0) ==
  LET scheme == TrimEnd(protocol0, ":")
      new_scheme_type == get_scheme_type(scheme)
  IN IF is_special(u.scheme_type) /= is_special(new_scheme_type) THEN Set(u, FALSE)
     ELSE IF protocol(u) = <<"f","i","l","e",":">> \/ scheme = <<"f","i","l","e">>
     THEN Set(u, FALSE)
     ELSE IF ~RangeOk(u, 0, u.protocol_end) THEN Panicked(u)
     ELSE Set([replace_range(u, 0, u.protocol_end,
                             to_ascii_lowercase(scheme) \o <<":">>)
                 EXCEPT !.scheme_type = new_scheme_type], TRUE)

set_username(u, new_username) ==
  LET encoded == percent_encode_userinfo(new_username)
      has_slashes == StartsWith(From(u.buffer, u.protocol_end), <<"/","/">>)
      insertion == IF has_slashes THEN encoded \o <<"@">>
                   ELSE <<"/","/">> \o encoded \o <<"@">>
      pos == IF has_slashes THEN u.protocol_end + 2 ELSE u.protocol_end
      delta == Len(insertion)
  IN IF ~is_special(u.scheme_type) /\ u.host_start = 0 THEN Set(u, FALSE)
     ELSE IF u.username_end > 0
     THEN IF ~RangeOk(u, u.protocol_end + 2, u.username_end) THEN Panicked(u)
          ELSE Set(replace_range(u, u.protocol_end + 2, u.username_end, encoded),
                   TRUE)
     ELSE IF u.protocol_end > Len(u.buffer) \/ pos > Len(u.buffer) THEN Panicked(u)
     ELSE Set([u EXCEPT !.buffer = InsertAt(@, pos, insertion),
                        !.username_end = pos + Len(encoded),
                        !.password_end = Shift(@, pos, delta),
                        !.host_start = Shift(@, pos, delta),
                        !.host_end = Shift(@, pos, delta),
                        !.pathname_start = Shift(@, pos, delta),
                        !.search_start = Shift(@, pos, delta),
                        !.hash_start = Shift(@, pos, delta)], TRUE)

set_password(u, new_password) ==
  LET encoded == percent_encode_userinfo(new_password)
      start == u.username_end
      end == u.password_end
      insertion == <<":">> \o encoded
      delta == Len(insertion)
  IN IF u.username_end = 0 THEN Set(u, FALSE)
     ELSE IF u.password_end > u.username_end
     THEN IF ~RangeOk(u, start, end) THEN Panicked(u)
          ELSE IF encoded = <<>>
          THEN Set([replace_range(u, start, end, <<>>)
                      EXCEPT !.password_end = u.username_end], TRUE)
          ELSE Set([replace_range(u, start, end, insertion)
                      EXCEPT !.password_end = start + 1 + Len(encoded)], TRUE)
     ELSE IF encoded /= <<>>
     THEN IF start > Len(u.buffer) THEN Panicked(u)
          ELSE Set([u EXCEPT !.buffer = InsertAt(@, start, insertion),
                             !.password_end = start + delta,
                             !.host_start = Shift(@, start, delta),
                             !.host_end = Shift(@, start, delta),
                             !.pathname_start = Shift(@, start, delta),
                             !.search_start = Shift(@, start, delta),
                             !.hash_start = Shift(@, start, delta)], TRUE)
     ELSE Set(u, TRUE)

set_host(u, new_host) ==
  LET parts == parse_host_port_parts(new_host)
      normalized_hostname == normalize_hostname(parts[1])
      replacement == IF parts[2].some
                     THEN normalized_hostname.val \o <<":">> \o parts[2].s
                     ELSE normalized_hostname.val
      start == u.host_start
  IN IF ~is_special(u.scheme_type) THEN Set(u, FALSE)
     ELSE IF ~normalized_hostname.ok THEN Set(u, FALSE)
     ELSE IF ~RangeOk(u, start, u.pathname_start) THEN Panicked(u)
     ELSE Set([replace_range(u, start, u.pathname_start, replacement)
                 EXCEPT !.host_end = start + Len(normalized_hostname.val),
                        !.port = IF parts[2].some THEN parse_port(parts[2].s)
                                 ELSE NoPort], TRUE)

set_hostname(u, new_hostname) ==
  LET normalized_hostname == normalize_hostname(new_hostname)
      start == u.host_start
  IN IF ~is_special(u.scheme_type) THEN Set(u, FALSE)
     ELSE IF ~normalized_hostname.ok THEN Set(u, FALSE)
     ELSE IF ~RangeOk(u, start, u.host_end) THEN Panicked(u)
     ELSE Set([replace_range(u, start, u.host_end, normalized_hostname.val)
                 EXCEPT !.host_end = start + Len(normalized_hostname.val)], TRUE)

set_port(u, new_port) ==
  LET port_num == parse_port(new_port)
      new_port_str == <<":">> \o new_port
      delta == Len(new_port_str)
  IN IF ~is_special(u.scheme_type) THEN Set(u, FALSE)
     ELSE IF new_port = <<>>
     THEN IF u.port = NoPort THEN Set(u, TRUE)
          ELSE IF ~RangeOk(u, u.host_end, u.pathname_start) THEN Panicked(u)
          ELSE Set([replace_range(u, u.host_end, u.pathname_start, <<>>)
                      EXCEPT !.port = NoPort], TRUE)
     ELSE IF port_num = NoPort THEN Set(u, FALSE)
     ELSE IF default_port(u.scheme_type) = port_num
     THEN IF u.port = NoPort THEN Set([u EXCEPT !.port = port_num], TRUE)
          ELSE IF ~RangeOk(u, u.host_end, u.pathname_start) THEN Panicked(u)
          ELSE Set([replace_range(u, u.host_end, u.pathname_start, <<>>)
                      EXCEPT !.port = port_num], TRUE)
     ELSE IF u.port /= NoPort
     THEN IF ~RangeOk(u, u.host_end, u.pathname_start) THEN Panicked(u)
          ELSE Set([replace_range(u, u.host_end, u.pathname_start, new_port_str)
                      EXCEPT !.port = port_num], TRUE)
     ELSE IF u.host_end > Len(u.buffer) THEN Panicked(u)
     ELSE Set([u EXCEPT !.buffer = InsertAt(@, u.host_end, new_port_str),
                        !.pathname_start = Shift(@, u.host_end, delta),
                        !.search_start = Shift(@, u.host_end, delta),
                        !.hash_start = Shift(@, u.host_end, delta),
                        !.port = port_num], TRUE)

set_pathname(u, new_pathname) ==
  LET has_authority == u.host_start > u.protocol_end
      needs_marker ==
        /\ ~is_special(u.scheme_type)
        /\ ~has_authority
        /\ StartsWith(new_pathname, <<"/","/">>)
        /\ (u.pathname_start /= u.host_end + 2
            \/ ~GetIs(u.buffer, u.host_end, u.pathname_start, <<"/",".">>))
      u1 == IF needs_marker
            THEN [u EXCEPT !.buffer = InsertAt(@, u.host_end, <<"/",".">>),
                           !.pathname_start = @ + 2,
                           !.search_start = IF @ > 0 THEN @ + 2 ELSE @,
                           !.hash_start = IF @ > 0 THEN @ + 2 ELSE @]
            ELSE u
  IN IF ~StartsWith(new_pathname, <<"/">>) /\ is_special(u.scheme_type)
     THEN Set(u, FALSE)
     ELSE IF needs_marker /\ u.host_end > Len(u.buffer) THEN Panicked(u)
     ELSE IF ~RangeOk(u1, u1.pathname_start, pathname_end(u1)) THEN Panicked(u1)
     ELSE Set(replace_range(u1, u1.pathname_start, pathname_end(u1), new_pathname),
              TRUE)

\* set_search and set_hash first give a special URL without pathname a "/".
EnsurePathname(u) ==
  IF is_special(u.scheme_type) /\ pathname(u) = <<>>
  THEN [u EXCEPT !.buffer = InsertAt(@, u.pathname_start, <<"/">>),
                 !.search_start = IF @ > 0 THEN @ + 1 ELSE @,
                 !.hash_start = IF @ > 0 THEN @ + 1 ELSE @]
  ELSE u

EnsurePathnamePanics(u) ==
  is_special(u.scheme_type) /\ pathname(u) = <<>> /\ u.pathname_start > Len(u.buffer)

\* set_search that inserts a new query without moving hash_start
SetSearchWithoutShift(u0, new_search0) ==
  With(EnsurePathname(u0), LAMBDA u :
  With(IF u.hash_start > 0 THEN u.hash_start ELSE Len(u.buffer), LAMBDA end :
  With(IF StartsWith(new_search0, <<"?">>) THEN new_search0
       ELSE <<"?">> \o new_search0, LAMBDA new_search :
    IF EnsurePathnamePanics(u0) \/ ~RangeOk(u, u.search_start, end) THEN Panicked(u0)
    ELSE IF u.search_start > 0 /\ new_search0 = <<>>
    THEN Set([replace_range(u, u.search_start, end, <<>>)
                EXCEPT !.search_start = 0], TRUE)
    ELSE IF u.search_start > 0
    THEN Set(replace_range(u, u.search_start, end, new_search), TRUE)
    ELSE IF new_search0 /= <<>>
    THEN Set([u EXCEPT !.buffer = InsertAt(@, end, new_search),
                       !.search_start = end], TRUE)
    ELSE Set(u, TRUE))))

set_search(u0, new_search0) ==
  LET u == EnsurePathname(u0)
      end == IF u.hash_start > 0 THEN u.hash_start ELSE Len(u.buffer)
      new_search == IF StartsWith(new_search0, <<"?">>) THEN new_search0
                    ELSE <<"?">> \o new_search0
  IN IF EnsurePathnamePanics(u0) THEN Panicked(u0)
     ELSE IF u.search_start > 0
     THEN IF ~RangeOk(u, u.search_start, end) THEN Panicked(u)
          ELSE IF new_search0 = <<>>
          THEN Set([replace_range(u, u.search_start, end, <<>>)
                      EXCEPT !.search_start = 0], TRUE)
          ELSE Set(replace_range(u, u.search_start, end, new_search), TRUE)
     ELSE IF new_search0 /= <<>>
     THEN IF end > Len(u.buffer) THEN Panicked(u)
          ELSE Set([u EXCEPT !.buffer = InsertAt(@, end, new_search),
                             !.search_start = end,
                             !.hash_start = IF @ > 0 THEN @ + Len(new_search)
                                            ELSE @], TRUE)
     ELSE Set(u, TRUE)

\* set_hash that appends the new fragment without truncating the old one
SetHashWithoutTruncate(u0, new_hash) ==
  With(EnsurePathname(u0), LAMBDA u :
    IF EnsurePathnamePanics(u0) THEN Panicked(u0)
    ELSE IF new_hash = <<>>
    THEN Set([u EXCEPT !.hash_start = 0], TRUE)
    ELSE Set(Push([u EXCEPT !.hash_start = IF @ > 0 THEN @ ELSE Len(u.buffer)],
                  IF StartsWith(new_hash, <<"#">>) THEN new_hash
                  ELSE <<"#">> \o new_hash), TRUE))

set_hash(u0, new_hash) ==
  LET u == EnsurePathname(u0)
      u1 == IF u.hash_start > 0
            THEN [u EXCEPT !.buffer = Slice(@, 0, MinOf({u.hash_start, Len(@)}))]
            ELSE [u EXCEPT !.hash_start = Len(u.buffer)]
  IN IF EnsurePathnamePanics(u0) THEN Panicked(u0)
     ELSE IF new_hash = <<>>
     THEN IF u.hash_start > 0
          THEN Set([u EXCEPT !.buffer = Slice(@, 0, MinOf({u.hash_start, Len(@)})),
                             !.hash_start = 0], TRUE)
          ELSE Set(u, TRUE)
     ELSE Set(Push(u1, IF StartsWith(new_hash, <<"#">>) THEN new_hash
                       ELSE <<"#">> \o new_hash), TRUE)

(***************************************************************************)
(* The program as a state machine.  A caller holds an input text and an    *)
(* optional base text, parses them, asks can_parse, re-parses the href of  *)
(* the value it got, and calls setters on the value.                       *)
(***************************************************************************)
VARIABLES input, base_url, op, arg, result, ret, steps

vars == <<input, base_url, op, arg, result, ret, steps>>

\* Bounds of the inputs
MaxTail == 2
MaxSetters == 2

Alphabet == {"/", "?", "#", ":", "@", "\\", ".", "a", "8", "0", " "}

RECURSIVE TextsUpTo(_)
TextsUpTo(k) ==
  IF k = 0 THEN {<<>>}
  ELSE LET shorter == TextsUpTo(k - 1)
       IN shorter \cup {Append(t, c) : t \in {x \in shorter : Len(x) = k - 1},
                                       c \in Alphabet}

Tails == TextsUpTo(MaxTail)

Prefixes ==
  { <<>>,
    <<"h","t","t","p",":">>,
    <<"h","t","t","p",":","/","/">>,
    <<"h","t","t","p",":","/","/","a">>,
    <<"h","t","t","p",":","/","/","a",":">>,
    <<"h","t","t","p",":","/","/","u","@","a">>,
    <<"H","t","t","p",":","/","/","A">>,
    <<"h","t","t","p","s",":","/","/","a",":","4","4","3">>,
    <<"w","s",":","/","/","a",":">>,
    <<"w","s","s",":","/","/","a",":","4","4","3">>,
    <<"f","t","p",":","/","/","a",":","2","1">>,
    <<"f","i","l","e",":">>,
    <<"s","c",":">>,
    <<"s","c",":","/","/","a">> }

\* Texts with tabs, '<', a backslash in the authority, and paths that
\* start with "//" once their dot segment is removed, blob URLs, and paths
\* with dot segments
Literals ==
  { <<"n","o","t"," ","a"," ","u","r","l">>,
    <<"/","/","/","/">>,
    <<"/","r","e","l","a","t","i","v","e","/","p","a","t","h">>,
    <<"/","/","e","x","a","m","p","l","e",".","c","o","m">>,
    <<"\t","h","t","t","p",":","/","/","a","/","\t">>,
    <<"h","t","\t","t","p",":","/","/","a">>,
    <<"s","c",":","a","<","b">>,
    <<"h","t","t","p",":","/","/","a","/","<">>,
    <<"h","t","t","p",":","/","/","a","\\","@","b","/">>,
    <<"h","t","t","p",":","/","/","u","@",":","8","0","/">>,
    <<"h","t","t","p","s",":","/","/","a",":","4","4","3","\\","@",".">>,
    <<"s","c",":","/",".","/","/","p">>,
    <<"s","c",":","/",".","/","/","p","?","q">>,
    <<"s","c",":","/",".","/","/","p","#","f">>,
    <<"/",".","/","/","p","?","q">>,
    <<"b","l","o","b",":","h","t","t","p","s",":","/","/","a",":","8","/","x">>,
    <<"b","l","o","b",":","h","t","t","p",":","/","/","a">>,
    <<"b","l","o","b",":","w","s",":","/","/","a","/">>,
    <<"b","l","o","b",":","x">>,
    <<"h","t","t","p",":","/","/","a","/","b","/","c","/",".",".","/",".",".","/","d">>,
    <<"h","t","t","p",":","/","/","a","/","%","2","e","%","2","e","/","p","a","t","h">>,
    <<"h","t","t","p",":","/","/","a","/","x","/","%","2","E">>,
    <<"h","t","t","p",":","/","/","a","/","x","/",".","%","2","e","/","y">>,
    <<"h","t","t","p",":","/","/","a","/","x","/","%","2","E",".","/">>,
    <<"h","t","t","p",":","/","/","a","/","%","2","e">>,
    <<"f","i","l","e",":","/","/","/","C",":","/",".",".","/",".",".">>,
    <<"f","i","l","e",":","/","/","/","C",":","/","x","/",".",".","/",".",".","/","y">>,
    <<"w","s",":","/","/","a","/",".",".","/","x","\\",".",".">>,
    <<"h","t","t","p",":","/","/","a","/","/","/",".",".","/","x">>,
    <<"f","i","l","e",":","/","/","/","x","/","y","/",".",".">>,
    <<"h","t","t","p",":","/","/","a","/","b","?","q","#","f"," ","g","#","h">> }

ParseInputs == {p \o t : p \in Prefixes, t \in Tails} \cup Literals

Bases ==
  { None,
    Some(<<"h","t","t","p",":","/","/","u",":","p","@","a",":","8","/","b","/","c","?","q","#","f">>),
    Some(<<"h","t","t","p",":","/","/","a",":","8","0">>),
    Some(<<"s","c",":","o","?","q","#","f">>),
    Some(<<"s","c",":","/","/","h",":","8","/","p","/","q">>),
    Some(<<"s","c",":","/","p","#","f">>),
    Some(<<"f","i","l","e",":","/","/","/","C",":","/","x">>) }

NotYet == Err("")

Init ==
  /\ input \in ParseInputs
  /\ base_url \in Bases
  /\ op = "init"
  /\ arg = <<>>
  /\ result = NotYet
  /\ ret = FALSE
  /\ steps = 0

\* UrlAggregator::parse
Parse ==
  /\ op = "init"
  /\ result' = parse_url_aggregator(input, base_url)
  /\ op' = "parse"
  /\ UNCHANGED <<input, base_url, arg, ret, steps>>

\* UrlAggregator::can_parse on the text that was parsed
CanParse ==
  /\ op = "parse"
  /\ ret' = validate_url(input, base_url).ok
  /\ op' = "can_parse"
  /\ UNCHANGED <<input, base_url, arg, result, steps>>

\* The Option of the fast path as a result
FastResult(fast_result) ==
  IF fast_result.some THEN Ok(fast_result.url) ELSE Err("None")

\* try_http_fast_path on the cleaned input without its fragment, as
\* parse_url_aggregator calls it
TryFastPath ==
  /\ op = "init"
  /\ base_url = None
  /\ LET pruned == prune_fragment(Cleaned(input))
     IN /\ Len(pruned[1]) >= 7
        /\ arg' = pruned[1]
        /\ result' = FastResult(try_http_fast_path(pruned[1]))
  /\ op' = "fast"
  /\ UNCHANGED <<input, base_url, ret, steps>>

\* parse(u.href(), None) of the value a parse gave
Reparse ==
  /\ op = "parse"
  /\ result.ok
  /\ input' = href(result.url)
  /\ base_url' = None
  /\ result' = parse_url_aggregator(href(result.url), None)
  /\ op' = "reparse"
  /\ UNCHANGED <<arg, ret, steps>>

\* u.origin() of the value a parse gave
Origin ==
  /\ op = "parse"
  /\ result.ok
  /\ arg' = origin(result.url)
  /\ op' = "origin"
  /\ UNCHANGED <<input, base_url, result, ret, steps>>

Next == Parse \/ CanParse \/ TryFastPath \/ Reparse

Spec == Init /\ [][Next]_vars

\* A caller parses and then asks for the origin
NextOrigin == Parse \/ Origin

OriginSpec == Init /\ [][NextOrigin]_vars

(***************************************************************************)
(* The setters: a caller parses one of a few texts and then calls up to    *)
(* MaxSetters setters on the value.                                        *)
(***************************************************************************)
Seeds ==
  { <<<<"h","t","t","p",":","/","/","a">>, None>>,
    <<<<"h","t","t","p",":","/","/","u",":","p","@","a",":","8","/","b","?","q","#","f">>, None>>,
    <<<<"h","t","t","p",":","/","/","@","a","/">>, None>>,
    <<<<"h","t","t","p","s",":","/","/","a",":","4","4","3","/">>, None>>,
    <<<<"s","c",":","o">>, None>>,
    <<<<"s","c",":","/","/","h","/","p","?","q">>, None>>,
    <<<<"s","c",":","/","p">>, None>>,
    <<<<"s","c",":","/","?","q","#","f">>, None>>,
    <<<<"f","i","l","e",":","/","/","/","x">>, None>>,
    <<<<"y">>, Some(<<"h","t","t","p",":","/","/","a",":","8","/","x">>)>>,
    <<<<"y">>, Some(<<"s","c",":","/","x">>)>>,
    <<<<"?","z">>, Some(<<"h","t","t","p",":","/","/","u","@","a","/","x">>)>> }

Hrefs ==
  { <<"h","t","t","p",":","/","/","b","/">>,
    <<"s","c",":","o">>,
    <<"b">> }

Protocols ==
  { <<"h","t","t","p","s">>,
    <<"w","s",":">>,
    <<"s","c">>,
    <<"f","i","l","e">>,
    <<"H","T","T","P">>,
    <<"x"," ","y">> }

Usernames ==
  { <<>>,
    <<"u">> }

Passwords ==
  { <<>>,
    <<"p">> }

Hosts ==
  { <<"b">>,
    <<"B",":","9">>,
    <<>>,
    <<"b",":","8","0">> }

Hostnames ==
  { <<"b">>,
    <<>> }

Ports ==
  { <<>>,
    <<"9">>,
    <<"8","0">>,
    <<"x">> }

Pathnames ==
  { <<"/","p">>,
    <<"p">>,
    <<>>,
    <<"/","/","p">>,
    <<"/","/","r">> }

Searches ==
  { <<>>,
    <<"q">>,
    <<"?">>,
    <<"?","q">> }

Hashes ==
  { <<>>,
    <<"f">>,
    <<"#">>,
    <<"#","f">> }

InitSetters ==
  /\ \E seed \in Seeds : input = seed[1] /\ base_url = seed[2]
  /\ op = "init"
  /\ arg = <<>>
  /\ result = NotYet
  /\ ret = FALSE
  /\ steps = 0

\* A value is held and no call has panicked.
Held == op \notin {"init", "fast", "panic"} /\ result.ok /\ steps < MaxSetters

\* The state after a setter has ended in r.
After(name, value, r) ==
  /\ result' = [result EXCEPT !.url = r.url]
  /\ ret' = r.ret
  /\ op' = IF r.panic THEN "panic" ELSE name
  /\ arg' = value
  /\ steps' = steps + 1
  /\ UNCHANGED <<input, base_url>>

SetHref == Held /\ \E v \in Hrefs : After("set_href", v, set_href(result.url, v))

SetProtocol ==
  Held /\ \E v \in Protocols : After("set_protocol", v, set_protocol(result.url, v))

SetUsername ==
  Held /\ \E v \in Usernames : After("set_username", v, set_username(result.url, v))

SetPassword ==
  Held /\ \E v \in Passwords : After("set_password", v, set_password(result.url, v))

SetHost == Held /\ \E v \in Hosts : After("set_host", v, set_host(result.url, v))

SetHostname ==
  Held /\ \E v \in Hostnames : After("set_hostname", v, set_hostname(result.url, v))

SetPort == Held /\ \E v \in Ports : After("set_port", v, set_port(result.url, v))

SetPathname ==
  Held /\ \E v \in Pathnames : After("set_pathname", v, set_pathname(result.url, v))

SetSearch ==
  Held /\ \E v \in Searches : After("set_search", v, set_search(result.url, v))

SetHash == Held /\ \E v \in Hashes : After("set_hash", v, set_hash(result.url, v))

NextSetters ==
  \/ Parse
  \/ SetHref \/ SetProtocol \/ SetUsername \/ SetPassword \/ SetHost
  \/ SetHostname \/ SetPort \/ SetPathname \/ SetSearch \/ SetHash

SetterSpec == InitSetters /\ [][NextSetters]_vars

\* The operations after which a value is held
Setters ==
  {"set_href", "set_protocol", "set_username", "set_password", "set_host",
   "set_hostname", "set_port", "set_pathname", "set_search", "set_hash"}

\* ---------------------------------------------------------------------
\* Properties
\* ---------------------------------------------------------------------

\* The step just taken delivered a URL value
HasValue == op \in {"parse", "reparse"} \cup Setters /\ result.ok

\* The text opens with a scheme: a letter, then alphanumerics, '+', '-',
\* '.', closed by ':'
HasValidScheme(text) ==
  /\ Len(text) > 0
  /\ text[1] \in Alpha
  /\ \E i \in 2..Len(text) :
       /\ text[i] = ":"
       /\ \A j \in 2..(i - 1) : text[j] \in AlphaNum \cup {"+", "-", "."}

\* The reference as the state machine receives it, and its parts
Reference == prune_fragment(Cleaned(input))[1]
ReferenceFragment == prune_fragment(Cleaned(input))[2]

\* The value of the base, parsed on its own
BaseValue == IF base_url.some THEN parse_url_aggregator(base_url.s, None) ELSE NotYet

SearchOrPathnameEnd(u) == IF u.search_start /= 0 THEN u.search_start ELSE pathname_end(u)
HashOrBufferEnd(u) == IF u.hash_start /= 0 THEN u.hash_start ELSE Len(u.buffer)

OffsetsOrdered(u) ==
  /\ u.protocol_end <= u.username_end
  /\ u.username_end <= u.password_end
  /\ u.password_end <= u.host_start
  /\ u.host_start <= u.host_end
  /\ u.host_end <= u.pathname_start
  /\ u.pathname_start <= SearchOrPathnameEnd(u)
  /\ SearchOrPathnameEnd(u) <= HashOrBufferEnd(u)
  /\ HashOrBufferEnd(u) <= Len(u.buffer)

\* C1: after every successful parse and after every setter call the offsets
\* are ordered: protocol_end <= username_end <= password_end <= host_start
\* <= host_end <= pathname_start <= (search_start or pathname end)
\* <= (hash_start or buffer length) <= buffer length.
C1_OffsetsMonotone == HasValue => OffsetsOrdered(result.url)

\* C2: whenever try_http_fast_path returns Some(url), the state machine on
\* the same trimmed, fragment-pruned input succeeds with an identical value
\* (buffer, offsets, numeric port, scheme type).
C2_FastPathAgrees ==
  (op = "fast" /\ result.ok) => StateMachine(arg, None, NoneUrl) = Ok(result.url)

\* C3: can_parse(input, base) is true exactly when parse(input, base) is Ok.
C3_CanParseAgrees == op = "can_parse" => (ret <=> result.ok)

\* C4: parsing the href of a parsed URL succeeds and gives the same href.
C4_ReparseIdempotent == op = "reparse" => (result.ok /\ href(result.url) = input)

\* The schemes that have a default port
PortSchemes ==
  { <<"h","t","t","p">>, <<"h","t","t","p","s">>, <<"w","s">>,
    <<"w","s","s">>, <<"f","t","p">> }

\* The inputs "<scheme>://a:<digits><rest>" whose authority is a host and an
\* explicit port: the scheme type and the digits, for each such reading.
ExplicitPort ==
  LET t == Cleaned(input)
  IN { <<get_scheme_type(sc), Slice(t, Len(sc) + 5, ScanWhile(t, Len(sc) + 5, Digits))>> :
         sc \in { x \in PortSchemes :
                    /\ StartsWith(t, x \o <<":", "/", "/", "a", ":">>)
                    /\ ScanWhile(t, Len(x) + 5, Digits) > Len(x) + 5
                    /\ \/ ScanWhile(t, Len(x) + 5, Digits) = Len(t)
                       \/ t[ScanWhile(t, Len(x) + 5, Digits) + 1] \in {"/", "?", "#", "\\"} } }

PortSuppressed(u) ==
  /\ port(u) = <<>>
  /\ host(u) = hostname(u)
  /\ u.host_end = u.pathname_start

PortWritten(u, n) ==
  /\ port(u) /= <<>>
  /\ RadixVal(port(u), 10) = n
  /\ Slice(u.buffer, u.host_end, u.pathname_start) = <<":">> \o port(u)

\* C5: for http, https, ws, wss and ftp an explicit port equal to the
\* default gives port() = "" and host() = hostname() with no ":port" text in
\* the buffer while the number stays in components.port; any other port is
\* written to the buffer and returned by port().
C5_DefaultPortSuppressed ==
  (op = "parse" /\ result.ok) =>
    \A e \in ExplicitPort :
      /\ result.url.port = RadixVal(e[2], 10)
      /\ IF RadixVal(e[2], 10) = default_port(e[1])
         THEN PortSuppressed(result.url)
         ELSE PortWritten(result.url, RadixVal(e[2], 10))

\* C6: with no base, parse fails and yields no URL for the empty text, for
\* text that is empty after trimming, and for text that does not open with
\* a valid scheme closed by ':'.
C6_NoBaseNoScheme ==
  (op = "parse" /\ ~base_url.some /\ ~HasValidScheme(Cleaned(input))) =>
    (~result.ok /\ result.url = NoUrl)

\* "/relative/path" was parsed without a base
C6_Witness ==
  /\ op = "parse" /\ ~base_url.some
  /\ input = <<"/","r","e","l","a","t","i","v","e","/","p","a","t","h">>
  /\ ~result.ok

\* The reference brings no scheme and no authority of its own
IsRelativeReference == ~HasValidScheme(Reference) /\ ~StartsWith(Reference, <<"/", "/">>)

SameAuthority(u, b) ==
  /\ protocol(u) = protocol(b)
  /\ username(u) = username(b)
  /\ password(u) = password(b)
  /\ hostname(u) = hostname(b)
  /\ port(u) = port(b)
  /\ u.port = b.port

\* C7: against a base without an opaque path, a reference with no scheme
\* that does not start with "//" parses to a URL with the protocol,
\* username, password, hostname, port and recorded numeric port of the base.
C7_AuthorityFromBase ==
  (op = "parse" /\ result.ok /\ BaseValue.ok /\ ~has_opaque_path(BaseValue.url)
     /\ IsRelativeReference) =>
    SameAuthority(result.url, BaseValue.url)

\* The base with its fragment replaced by that of the reference
WithFragment(b, fragment) ==
  LET bare == IF b.hash_start /= 0
              THEN [b EXCEPT !.buffer = Slice(b.buffer, 0, b.hash_start), !.hash_start = 0]
              ELSE b
  IN [bare EXCEPT !.buffer = bare.buffer \o <<"#">>
                               \o percent_encode_with_set(fragment, FRAGMENT_SET),
                  !.hash_start = Len(bare.buffer)]

\* C9: against a base with an opaque path, a reference without a scheme
\* parses exactly when it is fragment-only, and the result is the base with
\* its fragment replaced.
C9_OpaqueBase ==
  (op = "parse" /\ BaseValue.ok /\ has_opaque_path(BaseValue.url)
     /\ ~HasValidScheme(Reference)) =>
    /\ result.ok <=> (Reference = <<>> /\ ReferenceFragment.some)
    /\ result.ok => result.url = WithFragment(BaseValue.url, ReferenceFragment.s)

\* A fragment-only reference was resolved against an opaque base that has
\* a query and a fragment
C9_Witness ==
  /\ op = "parse" /\ result.ok
  /\ BaseValue.ok /\ has_opaque_path(BaseValue.url)
  /\ BaseValue.url.hash_start /= 0
  /\ Reference = <<>> /\ ReferenceFragment = Some(<<"a">>)
  /\ search(result.url) = search(BaseValue.url)
  /\ hash(result.url) = <<"#", "a">>

\* C10: after a successful parse and any sequence of setter calls, a URL
\* with a special scheme has a non-empty pathname() that begins with '/'.
C10_SpecialPathname ==
  (HasValue /\ is_special(result.url.scheme_type)) =>
    (pathname(result.url) /= <<>> /\ pathname(result.url)[1] = "/")

\* The base reduced to scheme, authority and the root path
RootBase == Some(Slice(BaseValue.url.buffer, 0, BaseValue.url.pathname_start) \o <<"/">>)

\* The base without its query and fragment
PathOnlyBase == Some(Slice(BaseValue.url.buffer, 0, pathname_end(BaseValue.url)))

\* The base path cut after its last '/'
BasePathTruncated ==
  Slice(pathname(BaseValue.url), 0, FindLast(pathname(BaseValue.url), {"/"})) \o <<"/">>

\* Two parses agree: both succeed with the same serialization
SameAs(r, other) == other.ok /\ href(r) = href(other.url)

\* The text of the URL before its fragment
BeforeHash(u) == Slice(u.buffer, 0, HashOrBufferEnd(u))

\* Only the fragment of the reference is in the result
FragmentOfReference(u) ==
  IF ReferenceFragment.some
  THEN /\ u.hash_start /= 0
       /\ From(u.buffer, u.hash_start)
            = <<"#">> \o percent_encode_with_set(ReferenceFragment.s, FRAGMENT_SET)
  ELSE u.hash_start = 0

Resolves == op = "parse" /\ result.ok /\ BaseValue.ok /\ ~has_opaque_path(BaseValue.url)
              /\ IsRelativeReference

\* The path of a file base opens with a drive letter the reference lacks
KeepsDrive ==
  /\ BaseValue.url.scheme_type = "File"
  /\ Len(pathname(BaseValue.url)) >= 3
  /\ pathname(BaseValue.url)[2] \in Alpha
  /\ pathname(BaseValue.url)[3] = ":"
  /\ ~is_windows_drive_letter(Reference, 1)

\* What the first byte of the reference selects from the base
SelectedFromBase(slashes, drive) ==
  LET r == result.url
      b == BaseValue.url
  IN /\ FragmentOfReference(r)
     /\ CASE Reference = <<>> -> BeforeHash(r) = BeforeHash(b)
          [] Reference /= <<>> /\ Reference[1] = "?" ->
               /\ pathname(r) = pathname(b)
               /\ SameAs(r, parse_url_aggregator(input, PathOnlyBase))
          [] Reference /= <<>> /\ Reference[1] \in slashes ->
               IF drive /\ KeepsDrive
               THEN SameAs(r, parse_url_aggregator(
                                Slice(pathname(b), 0, 3) \o Cleaned(input), RootBase))
               ELSE SameAs(r, parse_url_aggregator(input, RootBase))
          [] OTHER ->
               SameAs(r, parse_url_aggregator(BasePathTruncated \o Cleaned(input), base_url))

Slashes == IF is_special(BaseValue.url.scheme_type) THEN {"/", "\\"} ELSE {"/"}

\* The reference does not open with two slashes, which announce an authority
NoAuthority ==
  ~(Len(Reference) >= 2 /\ Reference[1] \in Slashes /\ Reference[2] \in Slashes)

HasAuthorityMark(u) ==
  /\ u.protocol_end + 2 <= u.host_start
  /\ GetIs(u.buffer, u.protocol_end, u.protocol_end + 2, <<"/","/">>)

\* A parsed non-special URL without authority whose pathname starts with "//"
SlashSlashPath(u) ==
  /\ ~is_special(u.scheme_type)
  /\ ~HasAuthorityMark(u)
  /\ StartsWith(pathname(u), <<"/","/">>)

\* "/." stands directly before the pathname, and the query and the fragment
\* start where their offsets say.
MarkerBeforePath(u) ==
  /\ u.pathname_start >= 2
  /\ GetIs(u.buffer, u.pathname_start - 2, u.pathname_start, <<"/",".">>)
  /\ u.search_start > 0 => GetIs(u.buffer, u.search_start, u.search_start + 1, <<"?">>)
  /\ u.hash_start > 0 => GetIs(u.buffer, u.hash_start, u.hash_start + 1, <<"#">>)

\* Parsing href(u) again gives the same host and the same pathname.
ReparsesAlike(u) ==
  With(parse_url_aggregator(href(u), None), LAMBDA again :
    /\ again.ok
    /\ host(again.url) = host(u)
    /\ pathname(again.url) = pathname(u))

\* C11: a parsed non-special URL without authority whose pathname begins
\* with "//" has the marker "/." directly before pathname_start, whether or
\* not a query or a fragment follows, with search_start and hash_start
\* shifted accordingly, and parsing its href again gives the same empty host
\* and the same pathname.
C11_MarkerInserted ==
  (op = "parse" /\ result.ok /\ SlashSlashPath(result.url))
    => (MarkerBeforePath(result.url) /\ ReparsesAlike(result.url))


\* A held non-special URL without authority
PathOnly(u) == ~is_special(u.scheme_type) /\ ~HasAuthorityMark(u)

\* The step is a call of the setter `name` that did not panic, on a held value
Calls(name) == op /= "init" /\ result.ok /\ op' = name /\ steps' = steps + 1

\* href() is the scheme, one marker, the pathname p, the query and the
\* fragment that were there
OneMarker(before, after, p) ==
  href(after) = protocol(before) \o <<"/",".">> \o p \o search(before) \o hash(before)

\* C12: on a non-special URL without authority, set_pathname(p) with p
\* starting with "//" returns true; afterwards pathname() is p, search() and
\* hash() are unchanged and href() has "/." directly before p, once only
\* (also when the marker was already there); a set_search that follows
\* leaves pathname() as it was.
C12_SetPathnameMarker ==
  [][ /\ (Calls("set_pathname") /\ PathOnly(result.url)
            /\ StartsWith(arg', <<"/","/">>))
        => /\ ret'
           /\ pathname(result'.url) = arg'
           /\ search(result'.url) = search(result.url)
           /\ hash(result'.url) = hash(result.url)
           /\ OneMarker(result.url, result'.url, arg')
      /\ (Calls("set_search") /\ op = "set_pathname" /\ ret
            /\ PathOnly(result.url) /\ StartsWith(arg, <<"/","/">>))
        => pathname(result'.url) = arg ]_vars


\* The scheme set_protocol(p) is to write: p without its trailing ':',
\* in lower case
NewScheme(p) == to_ascii_lowercase(TrimEnd(p, ":"))

\* set_protocol(p) on u has to refuse
ProtocolRefused(u, p) ==
  \/ is_special(u.scheme_type) /= is_special(get_scheme_type(NewScheme(p)))
  \/ protocol(u) = <<"f","i","l","e",":">>
  \/ NewScheme(p) = <<"f","i","l","e">>

\* The getters other than protocol() return the same
SameButProtocol(before, after) ==
  /\ username(after) = username(before)
  /\ password(after) = password(before)
  /\ host(after) = host(before)
  /\ hostname(after) = hostname(before)
  /\ port(after) = port(before)
  /\ pathname(after) = pathname(before)
  /\ search(after) = search(before)
  /\ hash(after) = hash(before)

\* C13: set_protocol(p) returns false when the new scheme is special and
\* the current one is not (or the reverse), or when the current or the new
\* scheme is file; otherwise it returns true, protocol() is the lowercased
\* scheme with ':', the scheme type is the type of the new scheme and every
\* other getter returns what it returned before.  A trailing ':' of p is
\* ignored.
C13_SetProtocol ==
  [][ Calls("set_protocol")
        => /\ ret' = ~ProtocolRefused(result.url, arg')
           /\ ret' => /\ protocol(result'.url) = NewScheme(arg') \o <<":">>
                      /\ result'.url.scheme_type = get_scheme_type(NewScheme(arg'))
                      /\ SameButProtocol(result.url, result'.url) ]_vars


\* The setters that write a part of the authority, and set_pathname
AuthoritySetters ==
  {"set_username", "set_host", "set_hostname", "set_port", "set_pathname"}

\* C14: on a non-special URL without authority, set_username, set_host,
\* set_hostname, set_port and set_pathname each return false.
C14_RefusedWithoutAuthority ==
  [][ (\E name \in AuthoritySetters : Calls(name)) /\ PathOnly(result.url)
        => ~ret' ]_vars


\* "username:password@" stands directly before the host
CredentialsBeforeHost(u) ==
  With(username(u) \o <<":">> \o password(u) \o <<"@">>, LAMBDA userinfo :
    GetIs(u.buffer, u.host_start - Len(userinfo), u.host_start, userinfo))

\* C15: set_password(p) returns false when username() is empty; when it
\* returns true, password() is the userinfo-percent-encoded p and, for a
\* password that is not empty, the buffer has "username:password@" directly
\* before the host.
C15_SetPassword ==
  [][ Calls("set_password")
        => /\ username(result.url) = <<>> => ~ret'
           /\ ret' => /\ password(result'.url) = percent_encode_userinfo(arg')
                      /\ arg' /= <<>> => CredentialsBeforeHost(result'.url) ]_vars


\* The setters that report success or failure
ReportingSetters ==
  {"set_href", "set_protocol", "set_username", "set_password", "set_host",
   "set_hostname", "set_port", "set_pathname"}

\* C16: when set_protocol, set_username, set_password, set_host,
\* set_hostname, set_port or set_pathname returns false, or set_href
\* returns Err, the URL value is as before the call: buffer, offsets,
\* numeric port and scheme type.
C16_FailureLeavesValue ==
  [][ (\E name \in ReportingSetters : Calls(name)) /\ ~ret'
        => result'.url = result.url ]_vars

\* A set_href and a set_port have failed one after the other
C16_Witness ==
  /\ op \in {"set_href", "set_port"} /\ ~ret /\ result.ok /\ steps = 2
  /\ arg \in {<<"b">>, <<"x">>}


\* No port text stands between the hostname and the pathname
NoPortText(u) == u.pathname_start = u.host_end

\* hostname(), pathname(), search() and hash() return the same
SameAroundPort(before, after) ==
  /\ hostname(after) = hostname(before)
  /\ pathname(after) = pathname(before)
  /\ search(after) = search(before)
  /\ hash(after) = hash(before)

\* C17: on a special URL set_port("") returns true, and afterwards port()
\* is "", no numeric port is recorded and no port text stands between
\* hostname and pathname; set_port with the default port of the scheme
\* returns true, records the number and leaves no port text.  In both cases
\* hostname(), pathname(), search() and hash() are as before.
C17_SetPortEmptyOrDefault ==
  [][ /\ (Calls("set_port") /\ is_special(result.url.scheme_type) /\ arg' = <<>>)
        => /\ ret'
           /\ port(result'.url) = <<>>
           /\ result'.url.port = NoPort
           /\ NoPortText(result'.url)
           /\ SameAroundPort(result.url, result'.url)
      /\ (Calls("set_port") /\ is_special(result.url.scheme_type)
            /\ parse_port(arg') /= NoPort
            /\ parse_port(arg') = default_port(result.url.scheme_type))
        => /\ ret'
           /\ result'.url.port = parse_port(arg')
           /\ NoPortText(result'.url)
           /\ SameAroundPort(result.url, result'.url) ]_vars


\* The getters that set_port is to leave alone
SameButPort(before, after) ==
  /\ protocol(after) = protocol(before)
  /\ username(after) = username(before)
  /\ password(after) = password(before)
  /\ hostname(after) = hostname(before)
  /\ pathname(after) = pathname(before)
  /\ search(after) = search(before)
  /\ hash(after) = hash(before)

\* C18: on a special URL, also one whose recorded port is the default of
\* its scheme and absent from the buffer, set_port(p) with a valid port p
\* that is not the default returns true; afterwards port() is p, host() is
\* hostname() with ":" and p, and protocol(), username(), password(),
\* hostname(), pathname(), search() and hash() are as before.
C18_SetPortNumber ==
  [][ (Calls("set_port") /\ is_special(result.url.scheme_type)
         /\ parse_port(arg') /= NoPort
         /\ parse_port(arg') /= default_port(result.url.scheme_type))
        => /\ ret'
           /\ port(result'.url) = arg'
           /\ host(result'.url) = hostname(result'.url) \o <<":">> \o arg'
           /\ SameButPort(result.url, result'.url) ]_vars


\* pathname(), search() and hash() return the same
SameAfterHost(before, after) ==
  /\ pathname(after) = pathname(before)
  /\ search(after) = search(before)
  /\ hash(after) = hash(before)

\* C19: on a special URL, also a file URL with an empty host, a
\* set_hostname(h) that returns true leaves hostname() the normalized h and
\* port(), protocol(), username(), password(), pathname(), search() and
\* hash() as before; a set_host(h) without port part that returns true
\* leaves pathname(), search() and hash() as before.
C19_SetHostname ==
  [][ /\ (Calls("set_hostname") /\ is_special(result.url.scheme_type) /\ ret')
        => /\ hostname(result'.url) = normalize_hostname(arg').val
           /\ port(result'.url) = port(result.url)
           /\ protocol(result'.url) = protocol(result.url)
           /\ username(result'.url) = username(result.url)
           /\ password(result'.url) = password(result.url)
           /\ SameAfterHost(result.url, result'.url)
      /\ (Calls("set_host") /\ is_special(result.url.scheme_type) /\ ret'
            /\ ~parse_host_port_parts(arg')[2].some)
        => SameAfterHost(result.url, result'.url) ]_vars


\* A userinfo that is not empty is closed by "@" directly before the host
UserinfoSeparated(u) ==
  has_credentials(u) => GetIs(u.buffer, u.host_start - 1, u.host_start, <<"@">>)

\* C20: a set_username(u) that returns true leaves username() the
\* userinfo-percent-encoded u, a userinfo that is not empty separated from
\* the host by "@", and password(), hostname(), port(), pathname(),
\* search() and hash() as before; on a URL without credentials, with the
\* empty credentials of "//@host", or with credentials emptied before.
C20_SetUsername ==
  [][ (Calls("set_username") /\ ret')
        => /\ username(result'.url) = percent_encode_userinfo(arg')
           /\ UserinfoSeparated(result'.url)
           /\ password(result'.url) = password(result.url)
           /\ hostname(result'.url) = hostname(result.url)
           /\ port(result'.url) = port(result.url)
           /\ SameAfterHost(result.url, result'.url) ]_vars


\* The text set_search(s) and set_hash(h) are to leave in the component
Prefixed(mark, s) == IF StartsWith(s, <<mark>>) THEN s ELSE <<mark>> \o s

\* protocol(), the credentials, host() and pathname() return the same
SameBeforeQuery(before, after) ==
  /\ protocol(after) = protocol(before)
  /\ username(after) = username(before)
  /\ password(after) = password(before)
  /\ host(after) = host(before)
  /\ pathname(after) = pathname(before)

\* The query text t stands directly after the pathname and directly before
\* the fragment (or the end of the buffer)
QueryBetween(u, t) ==
  /\ u.search_start = u.pathname_start + Len(pathname(u))
  /\ GetIs(u.buffer, u.search_start, get_search_end(u, Len(u.buffer)), t)

\* C21: set_search("") removes the query (search() is "", has_search() is
\* false); set_search(s) with s not empty leaves search() equal to s when s
\* starts with '?', else to '?' with s, and the query stands between the
\* pathname and the fragment.  In both cases protocol(), the credentials,
\* host(), pathname() and hash() are as before.
C21_SetSearch ==
  [][ Calls("set_search")
        => /\ arg' = <<>> => (search(result'.url) = <<>> /\ ~has_search(result'.url))
           /\ arg' /= <<>> => /\ search(result'.url) = Prefixed("?", arg')
                              /\ QueryBetween(result'.url, Prefixed("?", arg'))
           /\ SameBeforeQuery(result.url, result'.url)
           /\ hash(result'.url) = hash(result.url) ]_vars


\* What search() and hash() return for the component text t: a lone mark
\* reads as the empty text
Lone(mark, t) == IF t = <<mark>> THEN <<>> ELSE t

\* C21 amended: as C21, but search() returns "" when the query is the lone
\* "?" that set_search("?") writes (has_search() is then true).
C21_SetSearchAmended ==
  [][ Calls("set_search")
        => /\ arg' = <<>> => (search(result'.url) = <<>> /\ ~has_search(result'.url))
           /\ arg' /= <<>> => /\ search(result'.url) = Lone("?", Prefixed("?", arg'))
                              /\ has_search(result'.url)
                              /\ QueryBetween(result'.url, Prefixed("?", arg'))
           /\ SameBeforeQuery(result.url, result'.url)
           /\ hash(result'.url) = hash(result.url) ]_vars

\* set_search("q") has put a query in front of the fragment of a URL that
\* had none
C21_Witness ==
  /\ op = "set_search" /\ arg = <<"q">> /\ steps = 2
  /\ search(result.url) = <<"?","q">>
  /\ hash(result.url) = <<"#","f">>
  /\ input = <<"s","c",":","/","p">>


\* The fragment text t is the end of the buffer
FragmentLast(u, t) == GetIs(u.buffer, u.hash_start, Len(u.buffer), t)

\* The buffer is cut where the fragment of `before` started
CutAtHash(before, after) ==
  Len(after.buffer) = Len(before.buffer) - Len(From(before.buffer, HashOrBufferEnd(before)))

\* C22: set_hash("") removes the fragment (hash() is "", has_hash() is
\* false, the buffer ends where the old '#' stood); set_hash(h) with h not
\* empty leaves hash() equal to h when h starts with '#', else to '#' with
\* h, at the end of the buffer.  In both cases protocol(), the credentials,
\* host(), pathname() and search() are as before.
C22_SetHash ==
  [][ Calls("set_hash")
        => /\ arg' = <<>> => /\ hash(result'.url) = <<>>
                             /\ ~has_hash(result'.url)
                             /\ CutAtHash(result.url, result'.url)
           /\ arg' /= <<>> => /\ hash(result'.url) = Prefixed("#", arg')
                              /\ FragmentLast(result'.url, Prefixed("#", arg'))
           /\ SameBeforeQuery(result.url, result'.url)
           /\ search(result'.url) = search(result.url) ]_vars

\* C22 amended: as C22, but hash() returns "" when the fragment is the lone
\* "#" that set_hash("#") writes (has_hash() is then true).
C22_SetHashAmended ==
  [][ Calls("set_hash")
        => /\ arg' = <<>> => /\ hash(result'.url) = <<>>
                             /\ ~has_hash(result'.url)
                             /\ CutAtHash(result.url, result'.url)
           /\ arg' /= <<>> => /\ hash(result'.url) = Lone("#", Prefixed("#", arg'))
                              /\ has_hash(result'.url)
                              /\ FragmentLast(result'.url, Prefixed("#", arg'))
           /\ SameBeforeQuery(result.url, result'.url)
           /\ search(result'.url) = search(result.url) ]_vars

\* set_hash("f") has replaced the fragment of a URL with a query
C22_Witness ==
  /\ op = "set_hash" /\ arg = <<"f">> /\ steps = 2
  /\ hash(result.url) = <<"#","f">>
  /\ search(result.url) = <<"?","q">>
  /\ input = <<"s","c",":","/","?","q","#","f">>


\* The origin the scheme calls for: scheme, "//" and host() for a special
\* scheme other than file; that of the inner URL for a blob URL whose path
\* parses as an http or https URL; "null" otherwise
ExpectedOrigin(u) ==
  IF is_special(u.scheme_type) /\ u.scheme_type /= "File" THEN SpecialOrigin(u)
  ELSE IF u.scheme_type = "File" THEN NullOrigin
  ELSE IF protocol(u) /= <<"b","l","o","b",":">> THEN NullOrigin
  ELSE With(parse_url_aggregator(pathname(u), None), LAMBDA inner :
         IF inner.ok /\ inner.url.scheme_type \in {"Http", "Https"}
         THEN SpecialOrigin(inner.url)
         ELSE NullOrigin)

\* C23: origin() is protocol(), "//" and host() for a special URL whose
\* scheme is not file, "null" for a file URL and for a non-special URL that
\* is not a blob URL, and for a blob URL the origin of the URL in its path
\* when that parses with scheme http or https, else "null".
C23_Origin == op = "origin" => arg = ExpectedOrigin(result.url)


\* The text after "scheme://" of a reference with a scheme other than file,
\* and whether the reference has that shape
SchemeOf(text) == Slice(text, 0, FindFirst(text, {":"}))

AfterSlashes(text) == From(text, FindFirst(text, {":"}) + 3)

HasAuthorityText ==
  /\ ~base_url.some
  /\ HasValidScheme(Reference)
  /\ StartsWith(From(Reference, FindFirst(Reference, {":"}) + 1), <<"/","/">>)
  /\ to_ascii_lowercase(SchemeOf(Reference)) /= <<"f","i","l","e">>

\* The authority span: up to the first '/', '?' or '#', and '\' for a
\* special scheme
AuthoritySpan ==
  With(AfterSlashes(Reference), LAMBDA rest :
    Slice(rest, 0,
          ScanTo(rest, 0,
                 IF is_special(get_scheme_type(to_ascii_lowercase(SchemeOf(Reference))))
                 THEN {"/", "?", "#", "\\"} ELSE {"/", "?", "#"})))

\* The credentials of a span: the text before its last '@'
CredentialsOf(span) ==
  IF FindLast(span, {"@"}) < 0 THEN <<>> ELSE Slice(span, 0, FindLast(span, {"@"}))

\* The parts of the credentials around their first ':'
UserOf(cred) ==
  IF FindFirst(cred, {":"}) < 0 THEN cred ELSE Slice(cred, 0, FindFirst(cred, {":"}))

PassOf(cred) ==
  IF FindFirst(cred, {":"}) < 0 THEN <<>> ELSE From(cred, FindFirst(cred, {":"}) + 1)

\* The value u has the credentials of the span, no '@' when both are empty,
\* and a host when the span has credentials
SplitsAs(u, span) ==
  /\ username(u) = percent_encode_userinfo(UserOf(CredentialsOf(span)))
  /\ password(u) = percent_encode_userinfo(PassOf(CredentialsOf(span)))
  /\ (UserOf(CredentialsOf(span)) = <<>> /\ PassOf(CredentialsOf(span)) = <<>>)
       => ~HasChar(Slice(u.buffer, u.protocol_end, u.host_start), "@")
  /\ HasChar(span, "@") => hostname(u) /= <<>>

\* C24: in the authority of a URL, on the fast path and in the state
\* machine, the authority ends at the first '/', '?' or '#' (or '\' for a
\* special scheme); its last '@' separates the credentials from the host;
\* the first ':' of the credentials separates username and password; an empty
\* username with an empty password writes no credentials and no '@'; and
\* credentials before an empty host make the parse fail (file apart).
C24_AuthoritySplit ==
  (op \in {"parse", "fast"} /\ result.ok /\ HasAuthorityText)
    => SplitsAs(result.url, AuthoritySpan)


\* The dot segments, in any letter case of "%2e"
SingleDots == {<<".">>, <<"%","2","e">>}

DoubleDots ==
  {<<".",".">>, <<".","%","2","e">>, <<"%","2","e",".">>, <<"%","2","e","%","2","e">>}

IsDotSegment(segment) == to_ascii_lowercase(segment) \in SingleDots \cup DoubleDots

NoDotSegments(path) == \A segment \in Range(Split(path, "/")) : ~IsDotSegment(segment)


\* The path text of a reference "scheme://authority/path" (or
\* "file:///path"), '\' read as '/', up to the query
PathText ==
  With(IF StartsWith(Reference, <<"f","i","l","e",":","/","/">>) THEN From(Reference, 7)
       ELSE From(AfterSlashes(Reference), Len(AuthoritySpan)), LAMBDA rest :
    ReplaceChar(Slice(rest, 0, ScanTo(rest, 0, {"?"})), "\\", "/"))

\* A drive-letter segment
IsDriveSegment(segment) == Len(segment) = 2 /\ segment[1] \in Alpha /\ segment[2] = ":"

\* The segments left when single dots are dropped and each double dot
\* removes the segment before it (but not the drive letter that leads a
\* file path); a dot segment at the end leaves an empty last segment.
RECURSIVE ResolvedSegments(_, _, _)
ResolvedSegments(segments, kept, is_file) ==
  IF segments = <<>> THEN kept
  ELSE With(IF kept = <<>> \/ (is_file /\ Len(kept) = 1 /\ IsDriveSegment(kept[1]))
            THEN kept ELSE SubSeq(kept, 1, Len(kept) - 1), LAMBDA shortened :
       With(Head(segments), LAMBDA segment :
         ResolvedSegments(Tail(segments),
           IF to_ascii_lowercase(segment) \in DoubleDots
           THEN (IF Len(segments) = 1 THEN Append(shortened, <<>>) ELSE shortened)
           ELSE IF to_ascii_lowercase(segment) \in SingleDots
           THEN (IF Len(segments) = 1 THEN Append(kept, <<>>) ELSE kept)
           ELSE Append(kept, percent_encode_with_set(segment, PATH_SET)),
           is_file)))

\* The pathname that the dot-segment rules give for the path text
ResolvedPath(text, is_file) ==
  IF text = <<>> THEN <<"/">>
  ELSE <<"/">> \o Join(ResolvedSegments(Split(Tail(text), "/"), <<>>, is_file), "/")

\* A reference with a special scheme, "//", an authority that is not empty
\* and a path, parsed without base
HasPathText ==
  /\ ~base_url.some
  /\ HasValidScheme(Reference)
  /\ is_special(get_scheme_type(to_ascii_lowercase(SchemeOf(Reference))))
  /\ \/ HasAuthorityText /\ AuthoritySpan /= <<>>
     \/ StartsWith(Reference, <<"f","i","l","e",":","/","/","/">>)

\* C25: the pathname of a parsed special URL has no segment ".", ".." or a
\* "%2e" form of them in any letter case: a single dot is dropped, a double
\* dot removes the segment before it, a double dot at the root leaves "/",
\* and in a file URL a double dot never removes the leading drive letter.
C25_DotSegments ==
  (op \in {"parse", "fast"} /\ result.ok /\ is_special(result.url.scheme_type))
    => /\ NoDotSegments(pathname(result.url))
       /\ HasPathText
            => pathname(result.url)
                 = ResolvedPath(PathText, result.url.scheme_type = "File")


(***************************************************************************)
(* Cleaning: a caller parses a text, then the same text with bytes <= 0x20 *)
(* around it, or with a tab, LF or CR put in at some position.             *)
(***************************************************************************)
CleanPrefixes ==
  { <<>>,
    <<"h","t","t","p",":","/","/","a">>,
    <<"h","t","t","p",":","/","/","u","@","a">>,
    <<"f","i","l","e",":">>,
    <<"s","c",":">>,
    <<"s","c",":","/","/","a">> }

CleanInputs ==
  {p \o t : p \in CleanPrefixes, t \in TextsUpTo(MaxTail - 1)}
    \cup {<<"s","c",":"," ","a"," ","#"," ","f">>,
          <<"h","t","t","p",":","/","/","a","/","b"," ","c","?","q"," ","#","f">>}

CleanBases == {None, Some(<<"s","c",":","/","/","h",":","8","/","p","/","q">>)}

\* Runs of bytes <= 0x20
Pads == {<<>>, <<" ">>, <<"\n"," ">>, <<"\t","\r">>}

Whitespace == {<<"\t">>, <<"\n">>, <<"\r">>, <<"\r","\n">>}

InitCleaning ==
  /\ input \in CleanInputs
  /\ base_url \in CleanBases
  /\ op = "init"
  /\ arg = <<>>
  /\ result = NotYet
  /\ ret = FALSE
  /\ steps = 0

\* UrlAggregator::parse of the text with bytes <= 0x20 before and after it
ParsePadded ==
  /\ op = "parse"
  /\ \E lead \in Pads, trail \in Pads :
       /\ arg' = lead \o input \o trail
       /\ result' = parse_url_aggregator(lead \o input \o trail, base_url)
  /\ op' = "parse_padded"
  /\ UNCHANGED <<input, base_url, ret, steps>>

\* UrlAggregator::parse of the text with tabs or newlines put in at one
\* position
ParseInserted ==
  /\ op = "parse"
  /\ \E i \in 0..Len(input), w \in Whitespace :
       /\ arg' = InsertAt(input, i, w)
       /\ result' = parse_url_aggregator(InsertAt(input, i, w), base_url)
  /\ op' = "parse_inserted"
  /\ UNCHANGED <<input, base_url, ret, steps>>

NextCleaning == Parse \/ ParsePadded \/ ParseInserted

CleaningSpec == InitCleaning /\ [][NextCleaning]_vars

\* C26: the result of parse, the Ok value with its buffer and offsets or the
\* Err, is the same when bytes <= 0x20 are added before and after the input
\* and when tabs, LF or CR are put in at any position.
C26_CleaningInvariant ==
  [][ op' \in {"parse_padded", "parse_inserted"} => result' = result ]_vars

\* A text with CR LF inside its scheme has parsed to a value
C26_Witness ==
  /\ op = "parse_inserted" /\ result.ok
  /\ Len(arg) > 3 /\ arg[2] = "\r" /\ arg[3] = "\n"
  /\ result.url.scheme_type = "Http"


\* The fragment text t is written last: "#" and its encoding end the
\* buffer at hash_start, and the query before it holds no '#'
FragmentWritten(u, t) ==
  /\ GetIs(u.buffer, u.hash_start, u.hash_start + 1, <<"#">>)
  /\ From(u.buffer, u.hash_start) = <<"#">> \o percent_encode_with_set(t, FRAGMENT_SET)
  /\ u.search_start > 0 => ~HasChar(Slice(u.buffer, u.search_start, u.hash_start), "#")

\* The result is the base itself, taken for an empty reference
CopyOfBase(u) ==
  Reference = <<>> /\ base_url.some /\ BaseValue.ok /\ href(u) = href(BaseValue.url)

\* C27: after a successful parse of an input with '#', the fragment is the
\* text after the first '#' of the cleaned input and is written last:
\* hash_start is the offset of a '#', lies after search_start and
\* pathname_start, the buffer from hash_start is '#' with the fragment-set
\* encoding of that text, and the query holds no '#'.  After a parse of an
\* input without '#', hash_start is 0, unless the result is a copy of the
\* base.
C27_FragmentLast ==
  (op = "parse" /\ result.ok)
    => /\ ReferenceFragment.some
            => /\ result.url.hash_start > result.url.search_start
               /\ result.url.hash_start > result.url.pathname_start
               /\ FragmentWritten(result.url, ReferenceFragment.s)
       /\ ~ReferenceFragment.some
            => (result.url.hash_start = 0 \/ CopyOfBase(result.url))

\* C27 amended: as C27, but hash_start may equal pathname_start, when the
\* pathname is empty and there is no query.
C27_FragmentLastAmended ==
  (op = "parse" /\ result.ok)
    => /\ ReferenceFragment.some
            => /\ result.url.hash_start > result.url.search_start
               /\ result.url.hash_start >= result.url.pathname_start
               /\ (result.url.hash_start = result.url.pathname_start
                     => pathname(result.url) = <<>> /\ ~has_search(result.url))
               /\ FragmentWritten(result.url, ReferenceFragment.s)
       /\ ~ReferenceFragment.some
            => (result.url.hash_start = 0 \/ CopyOfBase(result.url))

\* A URL with a query and a fragment holding a space and a second '#' has
\* been parsed
C27_Witness ==
  /\ op = "parse" /\ result.ok
  /\ ~base_url.some
  /\ ReferenceFragment = Some(<<"f"," ","g","#","h">>)
  /\ search(result.url) = <<"?","q">>
  /\ hash(result.url) = <<"#","f","%","2","0","g","#","h">>


(***************************************************************************)
(* IPv4 addresses: parse_ipv4 and serialize_ipv4 on their own              *)
(***************************************************************************)
\* One part of a dotted address: the three radixes, the values around 256,
\* 256^2, 256^3 and 256^4, and texts that are no number
Ipv4Parts ==
  { <<"0">>, <<"1">>, <<"9">>, <<"2","5","5">>, <<"2","5","6">>,
    <<"0","3","7","7">>, <<"0","4","0","0">>, <<"0","8">>, <<"0","0">>,
    <<"0","x">>, <<"0","X">>, <<"0","x","f","f">>, <<"0","X","F","F">>,
    <<"0","x","1","0","0">>, <<"0","x","g">>, <<"a">>, <<"+","1">>,
    <<"0","x","+","1">>, <<"1","9","2">>, <<"1","6","8">>,
    <<"0","3","0","0">>, <<"0","2","5","0">>, <<"0","1">>,
    <<"0","x","C","0","A","8","0","1","0","1">>, <<"6","5","5","3","5">>,
    <<"6","5","5","3","6">>, <<"0","x","f","f","f","f","f","f">>,
    <<"0","x","1","0","0","0","0","0","0">>,
    <<"4","2","9","4","9","6","7","2","9","5">>,
    <<"4","2","9","4","9","6","7","2","9","6">>,
    <<"0","3","7","7","7","7","7","7","7","7","7","7">>,
    <<"0","4","0","0","0","0","0","0","0","0","0","0">>,
    <<"9","9","9","9","9","9","9","9","9","9","9","9","9","9","9","9","9","9","9","9">> }

Ipv4SmallParts == { <<"0">>, <<"1">>, <<"2","5","5">>, <<"2","5","6">>, <<"0","x">>, <<"0","1","0">> }

Dotted(parts) == Join(parts, ".")

\* Addresses of one to five parts, with and without a dot at the end; the
\* empty text and texts with an empty part are among them
Ipv4Inputs ==
  LET one == {<<p>> : p \in Ipv4Parts \cup {<<>>}}
      two == {<<p, q>> : p \in Ipv4Parts \cup {<<>>}, q \in Ipv4Parts}
      three == {<<p, q, r>> : p \in Ipv4SmallParts, q \in Ipv4SmallParts,
                               r \in Ipv4Parts}
      four == {<<p, q, r, s>> : p \in {<<"0">>, <<"1">>, <<"2","5","5">>},
                                 q \in Ipv4SmallParts, r \in Ipv4SmallParts,
                                 s \in Ipv4SmallParts}
      five == {<<p, q, r, s, <<"1">> >> : p \in {<<"1">>}, q \in {<<"0">>},
                                          r \in Ipv4SmallParts, s \in Ipv4SmallParts}
      named == { <<<<"0","3","0","0">>, <<"0","2","5","0">>, <<"0","1">>, <<"0","1">>>>,
                 <<<<"1","9","2">>, <<"1","6","8">>, <<"1">>, <<"1">>>> }
      texts == {Dotted(ps) : ps \in one \cup two \cup three \cup four \cup five \cup named}
  IN texts \cup {t \o <<".">> : t \in texts}

InitIpv4 ==
  /\ input \in Ipv4Inputs
  /\ base_url = None
  /\ op = "init"
  /\ arg = <<>>
  /\ result = NotYet
  /\ ret = FALSE
  /\ steps = 0

\* parse_ipv4(input)
ParseIpv4 ==
  /\ op = "init"
  /\ result' = parse_ipv4(input)
  /\ op' = "parse_ipv4"
  /\ steps' = steps + 1
  /\ UNCHANGED <<input, base_url, arg, ret>>

\* serialize_ipv4 of the address just parsed
SerializeIpv4 ==
  /\ op = "parse_ipv4"
  /\ result.ok
  /\ arg' = serialize_ipv4(result.val)
  /\ op' = "serialize_ipv4"
  /\ steps' = steps + 1
  /\ UNCHANGED <<input, base_url, result, ret>>

NextIpv4 == ParseIpv4 \/ SerializeIpv4

Ipv4Spec == InitIpv4 /\ [][NextIpv4]_vars


\* The text without one dot at its end
WithoutTrailingDot(t) == IF EndsWith(t, <<".">>) THEN SubSeq(t, 1, Len(t) - 1) ELSE t

PartIsHex(p) == StartsWith(p, <<"0","x">>) \/ StartsWith(p, <<"0","X">>)

PartIsOctal(p) == ~PartIsHex(p) /\ Len(p) >= 2 /\ p[1] = "0"

\* The digits of a part and the digits its radix allows
PartDigits(p) == IF PartIsHex(p) THEN From(p, 2) ELSE p

PartRadix(p) == IF PartIsHex(p) THEN 16 ELSE IF PartIsOctal(p) THEN 8 ELSE 10

RadixDigits(p) ==
  IF PartIsHex(p) THEN HexDigits
  ELSE IF PartIsOctal(p) THEN {"0","1","2","3","4","5","6","7"} ELSE Digits

Malformed(p) == p = <<>> \/ ~AllIn(PartDigits(p), RadixDigits(p))

\* The value of a part as four bytes, <<-1>> from 256^4 on
PartValue(p) == RadixBytes(PartDigits(p), PartRadix(p))

\* v >= 256^k, for a value of four bytes
AtLeastPower(v, k) == v = <<-1>> \/ \E i \in 1..(4 - k) : v[i] /= 0

\* The address the parts stand for: every part before the last is one byte,
\* the last part fills the bytes that remain
ExpectedIpv4(t) ==
  With(Split(WithoutTrailingDot(t), "."), LAMBDA parts :
    IF Len(parts) > 4 THEN ErrVal("InvalidIpv4")
    ELSE IF \E i \in 1..Len(parts) : Malformed(parts[i]) THEN ErrVal("InvalidIpv4")
    ELSE IF \E i \in 1..(Len(parts) - 1) : AtLeastPower(PartValue(parts[i]), 1)
    THEN ErrVal("InvalidIpv4")
    ELSE IF AtLeastPower(PartValue(parts[Len(parts)]), 5 - Len(parts))
    THEN ErrVal("InvalidIpv4")
    ELSE OkVal([i \in 1..4 |-> IF i < Len(parts) THEN PartValue(parts[i])[4]
                               ELSE PartValue(parts[Len(parts)])[i]]))

\* The three spellings of 192.168.1.1
SameAddress ==
  { <<"0","3","0","0",".","0","2","5","0",".","0","1",".","0","1">>,
    <<"1","9","2",".","1","6","8",".","1",".","1">>,
    <<"0","x","C","0","A","8","0","1","0","1">> }

\* C28: parse_ipv4 of one to four dot-separated parts (one dot at the end
\* removed) is the 32-bit value whose leading bytes are the parts before the
\* last and whose remaining bytes are the last part, each part read as hex
\* after "0x"/"0X" (empty means 0), as octal with a leading "0" and two or
\* more characters, else as decimal; it fails when a part before the last is
\* 256 or more, when the last is 256^(5-n) or more, when a part is empty or
\* malformed, or when there are more than four parts.  "0300.0250.01.01",
\* "192.168.1.1" and "0xC0A80101" give one value, serialized "192.168.1.1".
C28_Ipv4Value ==
  /\ op \in {"parse_ipv4", "serialize_ipv4"} => result = ExpectedIpv4(input)
  /\ (op = "parse_ipv4" /\ input \in SameAddress) => result = OkVal(<<192, 168, 1, 1>>)
  /\ (op = "serialize_ipv4" /\ input \in SameAddress)
       => arg = <<"1","9","2",".","1","6","8",".","1",".","1">>

\* The same, for the addresses without a '+'
Ipv4ValueUnsigned == HasChar(input, "+") \/ C28_Ipv4Value


(***************************************************************************)
(* IPv6 addresses: parse_ipv6 and serialize_ipv6 on their own              *)
(***************************************************************************)
\* The number of segment values other than 0
MaxSegValues == 2

\* 0 and values of one, four, three and two hex digits
SegValues == {0} \cup {<<10, 65535, 256, 2748>>[i] : i \in 1..MaxSegValues}

SegmentArrays == [1..8 -> SegValues]

\* The first k of seven hex segments
HexSegments(k) == SubSeq(<<<<"1">>, <<"a","2">>, <<"3">>, <<"F","f","f","4">>,
                           <<"5">>, <<"0">>, <<"7">> >>, 1, k)

Colons(segs) == Join(segs, ":")

\* A dotted address, a part of 256, three parts, and a zone mark
Ipv4Tails ==
  { <<"1",".","2",".","3",".","4">>,
    <<"2","5","5",".","0",".","0",".","1">>,
    <<"2","5","6",".","0",".","0",".","1">>,
    <<"1",".","2",".","3">>,
    <<"%","1",".","2",".","3",".","4">> }

\* Hex segments around "::" or without it, before a dotted address or on
\* their own, with and without brackets
Ipv6Inputs ==
  LET around == {Colons(HexSegments(b)) \o <<":", ":">> \o Colons(HexSegments(a)) :
                   b \in 0..7, a \in 0..7}
      plain == {Colons(HexSegments(k)) : k \in 0..7}
      \* the colon that separates the hex segments from what follows
      sep(p) == IF p = <<>> \/ EndsWith(p, <<":", ":">>) THEN p ELSE p \o <<":">>
      embedded == {sep(p) \o v : p \in around \cup plain, v \in Ipv4Tails}
                    \cup {p \o <<":">> \o v : p \in around \cup plain, v \in Ipv4Tails}
      pure == around \cup {p \o <<":", "8">> : p \in plain}
                \cup {<<"+","1",":",":">>, <<"1",":",":","2",":",":","3">>,
                      <<"1","2","3","4","5",":",":">>, <<"g",":",":">>}
      texts == embedded \cup pure
  IN texts \cup {<<"[">> \o t \o <<"]">> : t \in texts}

InitIpv6 ==
  /\ \/ input \in Ipv6Inputs /\ op = "init" /\ result = NotYet
     \/ input = <<>> /\ op = "segments" /\ result \in {OkVal(s) : s \in SegmentArrays}
  /\ base_url = None
  /\ arg = <<>>
  /\ ret = NotYet
  /\ steps = 0

\* parse_ipv6(input)
ParseIpv6 ==
  /\ op = "init"
  /\ result' = parse_ipv6(input)
  /\ op' = "parse_ipv6"
  /\ steps' = steps + 1
  /\ UNCHANGED <<input, base_url, arg, ret>>

\* serialize_ipv6 of the segments held
SerializeIpv6 ==
  /\ op \in {"segments", "parse_ipv6"}
  /\ result.ok
  /\ arg' = serialize_ipv6(result.val)
  /\ op' = "serialize_ipv6"
  /\ steps' = steps + 1
  /\ UNCHANGED <<input, base_url, result, ret>>

\* parse_ipv6 of the text just serialized
ReparseIpv6 ==
  /\ op = "serialize_ipv6"
  /\ ret' = parse_ipv6(arg)
  /\ op' = "reparse_ipv6"
  /\ steps' = steps + 1
  /\ UNCHANGED <<input, base_url, arg, result>>

NextIpv6 == ParseIpv6 \/ SerializeIpv6 \/ ReparseIpv6

Ipv6Spec == InitIpv6 /\ [][NextIpv6]_vars

\* Lowercase hex without leading zeros
LowerHex(n) ==
  LET digits == <<LowerHexTable[(n \div 4096) + 1], LowerHexTable[((n \div 256) % 16) + 1],
                  LowerHexTable[((n \div 16) % 16) + 1], LowerHexTable[(n % 16) + 1]>>
  IN From(digits, MinOf({3, ScanWhile(digits, 0, {"0"})}))

HexJoined(segments) == Colons([i \in 1..Len(segments) |-> LowerHex(segments[i])])

\* The runs of zero segments that cannot be made longer, as <<first, last>>
ZeroRuns(s) ==
  {r \in (1..8) \X (1..8) :
     /\ r[1] <= r[2]
     /\ \A j \in r[1]..r[2] : s[j] = 0
     /\ r[1] = 1 \/ s[r[1] - 1] /= 0
     /\ r[2] = 8 \/ s[r[2] + 1] /= 0}

\* The longest runs, and of them the first
FirstLongest(s) ==
  LET longest == {r \in ZeroRuns(s) : \A q \in ZeroRuns(s) : q[2] - q[1] <= r[2] - r[1]}
  IN CHOOSE r \in longest : \A q \in longest : r[1] <= q[1]

ExpectedIpv6Text(s) ==
  IF ZeroRuns(s) = {} \/ FirstLongest(s)[2] = FirstLongest(s)[1]
  THEN <<"[">> \o HexJoined(s) \o <<"]">>
  ELSE <<"[">> \o HexJoined(SubSeq(s, 1, FirstLongest(s)[1] - 1)) \o <<":", ":">>
         \o HexJoined(SubSeq(s, FirstLongest(s)[2] + 1, 8)) \o <<"]">>

\* C29: serialize_ipv6 compresses exactly one run of zero segments, the
\* longest and of the longest the first, and only a run longer than one;
\* every other segment is lowercase hex without leading zeros, inside '['
\* and ']'; and parse_ipv6 of the serialized text gives the segments back.
C29_SerializeIpv6 ==
  /\ op \in {"serialize_ipv6", "reparse_ipv6"} => arg = ExpectedIpv6Text(result.val)
  /\ op = "reparse_ipv6" => ret = OkVal(result.val)

\* Segments with two longest runs of zeros and a single zero have been
\* serialized and parsed back
C29_Witness ==
  /\ op = "reparse_ipv6"
  /\ result.val = <<0, 10, 0, 0, 65535, 0, 0, 10>>
  /\ arg = <<"[","0",":","a",":",":","f","f","f","f",":","0",":","0",":","a","]">>
  /\ ret.ok


\* The text between the brackets, or the text itself
Unbracketed(t) ==
  IF StartsWith(t, <<"[">>) /\ EndsWith(Tail(t), <<"]">>)
  THEN SubSeq(t, 2, Len(t) - 1) ELSE t

\* What follows the last colon
FinalSegment(t) == From(Unbracketed(t), FindLast(Unbracketed(t), {":"}) + 1)

\* Four decimal parts of at most 255
IsDottedIpv4(v) ==
  /\ Len(Split(v, ".")) = 4
  /\ \A i \in 1..4 : /\ Split(v, ".")[i] /= <<>>
                     /\ Len(Split(v, ".")[i]) <= 3
                     /\ AllIn(Split(v, ".")[i], Digits)
                     /\ RadixVal(Split(v, ".")[i], 10) <= 255

DottedByte(v, i) == RadixVal(Split(v, ".")[i], 10)

\* The part before the dotted address: a "::" directly before the address
\* belongs to it, a single colon separates it from the address
PrecedingPart(t) ==
  LET upto == Slice(Unbracketed(t), 0, FindLast(Unbracketed(t), {":"}) + 1)
  IN IF EndsWith(upto, <<":", ":">>) THEN upto ELSE SubSeq(upto, 1, Len(upto) - 1)

HexTexts(p) == IF p = <<>> THEN <<>> ELSE Split(p, ":")

AllHexSegments(segs) ==
  \A i \in 1..Len(segs) : segs[i] /= <<>> /\ Len(segs[i]) <= 4 /\ AllIn(segs[i], HexDigits)

HexValues(segs) == [i \in 1..Len(segs) |-> RadixVal(segs[i], 16)]

\* The six segments a preceding part stands for, <<-1>> when it has neither
\* six hex segments without "::" nor at most six around one "::"
SixSegments(p) ==
  LET dc == FindStr(p, <<":", ":">>)
      before == HexTexts(Slice(p, 0, dc))
      after == HexTexts(From(p, dc + 2))
  IN IF dc < 0
     THEN IF Len(HexTexts(p)) = 6 /\ AllHexSegments(HexTexts(p))
          THEN HexValues(HexTexts(p)) ELSE <<-1>>
     ELSE IF /\ FindStr(From(p, dc + 1), <<":", ":">>) < 0
             /\ AllHexSegments(before) /\ AllHexSegments(after)
             /\ Len(before) + Len(after) <= 6
     THEN HexValues(before) \o Zeros(6 - Len(before) - Len(after)) \o HexValues(after)
     ELSE <<-1>>

\* C30: parse_ipv6 of a text whose final colon-segment is a dotted IPv4
\* address puts the address in segments 6 and 7 and accepts the part
\* before it when that has exactly six hex segments without "::", or at
\* most six around one "::" whose gap is filled with zeros, wherever the
\* "::" stands: at the start, in the middle or directly before the address.
\* A text with a '%' is refused.
C30_EmbeddedIpv4 ==
  (op = "parse_ipv6")
    => /\ HasChar(input, "%") => ~result.ok
       /\ (/\ ~HasChar(input, "%")
           /\ HasChar(Unbracketed(input), ":")
           /\ IsDottedIpv4(FinalSegment(input))
           /\ SixSegments(PrecedingPart(input)) /= <<-1>>)
            => result = OkVal(SixSegments(PrecedingPart(input))
                                \o <<DottedByte(FinalSegment(input), 1) * 256
                                       + DottedByte(FinalSegment(input), 2),
                                     DottedByte(FinalSegment(input), 3) * 256
                                       + DottedByte(FinalSegment(input), 4)>>)

\* The same, but for a "::" directly before the address with segments
\* before it
EmbeddedIpv4NotLast ==
  \/ /\ EndsWith(PrecedingPart(input), <<":", ":">>)
     /\ PrecedingPart(input) /= <<":", ":">>
  \/ C30_EmbeddedIpv4


(***************************************************************************)
(* replace_range on its own: a caller parses a text and replaces one range *)
(* of the buffer.                                                          *)
(***************************************************************************)
\* The texts put in the place of a range
Replacements == {[i \in 1..n |-> "z"] : n \in 0..MaxTail}

\* replace_range(start, end, replacement) on the parsed value, for a range
\* that String::replace_range accepts; arg keeps the value before the call
\* and the arguments
ReplaceRange ==
  /\ op = "parse"
  /\ result.ok
  /\ \E start \in 0..Len(result.url.buffer), replacement \in Replacements :
       \E end \in start..Len(result.url.buffer) :
         /\ arg' = <<result.url, start, end, replacement>>
         /\ result' = Ok(replace_range(result.url, start, end, replacement))
  /\ op' = "replace_range"
  /\ steps' = steps + 1
  /\ UNCHANGED <<input, base_url, ret>>

NextRange == Parse \/ ReplaceRange

RangeSpec == InitSetters /\ [][NextRange]_vars

OffsetFields ==
  {"protocol_end", "username_end", "password_end", "host_start", "host_end",
   "pathname_start", "search_start", "hash_start"}

\* The offsets that move: those after an insertion point, or at or after
\* the end of a replaced range
Moves(offset, start, end) ==
  IF start = end THEN offset > start ELSE offset >= end

\* after is before with [start, end) replaced by text
Replaced(before, after, start, end, text) ==
  /\ after.buffer = Slice(before.buffer, 0, start) \o text \o From(before.buffer, end)
  /\ \A f \in OffsetFields :
       after[f] = IF Moves(before[f], start, end)
                  THEN before[f] + Len(text) - (end - start) ELSE before[f]
  /\ after.port = before.port
  /\ after.scheme_type = before.scheme_type
  /\ before.search_start = 0 => after.search_start = 0
  /\ before.hash_start = 0 => after.hash_start = 0

\* C33: replace_range(start, end, text) replaces buffer[start..end] by text
\* and shifts by len(text) - (end - start) exactly the offsets greater than
\* start when start = end, or at or after end when start < end; the other
\* offsets, the port and the scheme type stay, and a query or fragment
\* offset of 0 stays 0.
C33_ReplaceRange ==
  op = "replace_range" => Replaced(arg[1], result.url, arg[2], arg[3], arg[4])

\* A range between the host and the query has been replaced by a longer
\* text, and an empty range at the start of the path has been filled
C33_Witness ==
  /\ op = "replace_range"
  /\ arg[1].search_start > 0 /\ arg[1].hash_start > 0
  /\ arg[2] < arg[3] /\ arg[3] <= arg[1].search_start /\ arg[2] >= arg[1].host_end
  /\ Len(arg[4]) > arg[3] - arg[2]
  /\ result.url.hash_start > arg[1].hash_start


(***************************************************************************)
(* url_search_params.rs.  A string is the sequence of its bytes, a list is *)
(* a sequence of <<key, value>> pairs.                                     *)
(***************************************************************************)
\* The code of an upper-case hex digit
HexCode(d) == IF d < 10 THEN 48 + d ELSE 55 + d

IsUnreserved(b) ==
  \/ b \in 65..90 \/ b \in 97..122 \/ b \in 48..57
  \/ b \in {45, 95, 46, 126}

\* Encode with '+' left as it is
EncodeKeepPlus(s) ==
  Flatten([i \in 1..Len(s) |->
             IF IsUnreserved(s[i]) \/ s[i] = 43 THEN <<s[i]>>
             ELSE IF s[i] = 32 THEN <<43>>
             ELSE <<37, HexCode(s[i] \div 16), HexCode(s[i] % 16)>>])

encode_component(s) ==
  Flatten([i \in 1..Len(s) |->
             IF IsUnreserved(s[i]) THEN <<s[i]>>
             ELSE IF s[i] = 32 THEN <<43>>
             ELSE <<37, HexCode(s[i] \div 16), HexCode(s[i] % 16)>>])

\* The value of a hex digit given by its code, -1 for another byte
HexDigitOf(b) ==
  IF b \in 48..57 THEN b - 48
  ELSE IF b \in 65..70 THEN b - 55
  ELSE IF b \in 97..102 THEN b - 87
  ELSE -1

\* u8::from_str_radix(hex, 16) of two bytes: two hex digits, or '+' and one
\* hex digit; -1 for Err
ByteFromHex(h1, h2) ==
  IF h1 = 43 THEN HexDigitOf(h2)
  ELSE IF HexDigitOf(h1) < 0 \/ HexDigitOf(h2) < 0 THEN -1
  ELSE HexDigitOf(h1) * 16 + HexDigitOf(h2)

\* The length of the UTF-8 sequence a first byte announces, 0 for a byte
\* that starts none
Utf8Need(b) ==
  IF b < 128 THEN 1
  ELSE IF b >= 194 /\ b <= 223 THEN 2
  ELSE IF b >= 224 /\ b <= 239 THEN 3
  ELSE IF b >= 240 /\ b <= 244 THEN 4
  ELSE 0

\* Whether c may stand at place i (2, 3 or 4) of a sequence that starts
\* with b
Utf8Follows(b, i, c) ==
  IF i > 2 THEN c >= 128 /\ c <= 191
  ELSE IF b = 224 THEN c >= 160 /\ c <= 191
  ELSE IF b = 237 THEN c >= 128 /\ c <= 159
  ELSE IF b = 240 THEN c >= 144 /\ c <= 191
  ELSE IF b = 244 THEN c >= 128 /\ c <= 143
  ELSE c >= 128 /\ c <= 191

\* The number of bytes at the head of bs that begin a well-formed sequence
Utf8Matched(bs) ==
  MaxOf({k \in 1..MinOf({Len(bs), MaxOf({1, Utf8Need(bs[1])})}) :
           \A i \in 2..k : Utf8Follows(bs[1], i, bs[i])})

\* String::from_utf8_lossy: a well-formed sequence stays, the longest
\* beginning of one that is not completed becomes U+FFFD
RECURSIVE from_utf8_lossy(_)
from_utf8_lossy(bs) ==
  IF bs = <<>> THEN <<>>
  ELSE IF Utf8Need(bs[1]) > 0 /\ Utf8Matched(bs) = Utf8Need(bs[1])
  THEN SubSeq(bs, 1, Utf8Matched(bs)) \o from_utf8_lossy(From(bs, Utf8Matched(bs)))
  ELSE <<239, 191, 189>> \o from_utf8_lossy(From(bs, Utf8Matched(bs)))

\* A position of a string where a character starts or the string ends
is_char_boundary(s, i) == i = 0 \/ i >= Len(s) \/ s[i + 1] < 128 \/ s[i + 1] >= 192

\* The bytes decode_component collects from position i on (0-based);
\* <<-1>> when the slice s[i + 1..i + 3] does not end on a character
\* boundary, which panics
RECURSIVE DecodeFrom(_, _)
DecodeFrom(s, i) ==
  IF i >= Len(s) THEN <<>>
  ELSE IF s[i + 1] = 43 THEN <<32>> \o DecodeFrom(s, i + 1)
  ELSE IF s[i + 1] = 37 /\ i + 2 < Len(s)
  THEN IF ~(is_char_boundary(s, i + 1) /\ is_char_boundary(s, i + 3)) THEN <<-1>>
       ELSE IF ByteFromHex(s[i + 2], s[i + 3]) >= 0
       THEN <<ByteFromHex(s[i + 2], s[i + 3])>> \o DecodeFrom(s, i + 3)
       ELSE <<37>> \o DecodeFrom(s, i + 1)
  ELSE <<s[i + 1]>> \o DecodeFrom(s, i + 1)

\* The decoded string, <<-1>> for a panic
decode_component(s) ==
  IF HasChar(DecodeFrom(s, 0), -1) THEN <<-1>> ELSE from_utf8_lossy(DecodeFrom(s, 0))

\* One "key=value" or "key" of a query string
decode_pair(pair) ==
  IF HasChar(pair, 61)
  THEN <<decode_component(Slice(pair, 0, FindFirst(pair, {61}))),
         decode_component(From(pair, FindFirst(pair, {61}) + 1))>>
  ELSE <<decode_component(pair), <<>> >>

\* UrlSearchParams::parse
params_parse(query0) ==
  LET query == IF StartsWith(query0, <<63>>) THEN Tail(query0) ELSE query0
      pairs == SelectSeq(Split(query, 38), LAMBDA pair : pair /= <<>>)
  IN IF query = <<>> THEN <<>>
     ELSE [i \in 1..Len(pairs) |-> decode_pair(pairs[i])]

\* UrlSearchParams::append
params_append(params, key, value) == Append(params, <<key, value>>)

\* retain_mut of set: the first pair with the key takes the value, the
\* later ones go
RECURSIVE SetRetain(_, _, _, _)
SetRetain(params, key, value, found_first) ==
  IF params = <<>> THEN <<>>
  ELSE IF params[1][1] /= key
  THEN <<params[1]>> \o SetRetain(Tail(params), key, value, found_first)
  ELSE IF found_first THEN SetRetain(Tail(params), key, value, TRUE)
  ELSE <<<<key, value>>>> \o SetRetain(Tail(params), key, value, TRUE)

\* Set by removing every pair with the key and appending one
SetAtEnd(params, key, value) ==
  Append(SelectSeq(params, LAMBDA pair : pair[1] /= key), <<key, value>>)

\* UrlSearchParams::set
params_set(params, key, value) ==
  IF \E i \in 1..Len(params) : params[i][1] = key
  THEN SetRetain(params, key, value, FALSE)
  ELSE Append(params, <<key, value>>)

\* UrlSearchParams::get_all
get_all(params, key) ==
  LET kept == SelectSeq(params, LAMBDA pair : pair[1] = key)
  IN [i \in 1..Len(kept) |-> kept[i][2]]

\* UrlSearchParams::size
size(params) == Len(params)

RECURSIVE SerializeParams(_)
SerializeParams(params) ==
  IF params = <<>> THEN <<>>
  ELSE (IF Len(params) > 1 THEN SerializeParams(SubSeq(params, 1, Len(params) - 1)) \o <<38>>
        ELSE <<>>)
         \o encode_component(params[Len(params)][1]) \o <<61>>
         \o encode_component(params[Len(params)][2])

\* UrlSearchParams::serialize
params_serialize(params) ==
  IF params = <<>> THEN <<>> ELSE <<63>> \o SerializeParams(params)

MaxParams == 3

\* "", "a" and "b=&"
ParamKeys == {<<>>, <<97>>, <<98, 61, 38>>}

\* "", "x y" and "<e acute>%+~"
ParamValues == {<<>>, <<120, 32, 121>>, <<195, 169, 37, 43, 126>>}

InitParams ==
  /\ input = <<>>
  /\ base_url = None
  /\ op = "new"
  /\ arg = <<>>
  /\ result = <<>>
  /\ ret = <<>>
  /\ steps = 0

ParamsAppend ==
  /\ op \in {"new", "append", "set"}
  /\ Len(result) < MaxParams
  /\ \E key \in ParamKeys, value \in ParamValues :
       /\ arg' = <<result, key, value>>
       /\ result' = params_append(result, key, value)
  /\ op' = "append"
  /\ UNCHANGED <<input, base_url, ret, steps>>

ParamsSet ==
  /\ op \in {"new", "append", "set"}
  /\ Len(result) <= MaxParams
  /\ \E key \in ParamKeys, value \in ParamValues :
       /\ arg' = <<result, key, value>>
       /\ result' = params_set(result, key, value)
  /\ op' = "set"
  /\ UNCHANGED <<input, base_url, ret, steps>>

ParamsSerialize ==
  /\ op \in {"new", "append", "set"}
  /\ ret' = params_serialize(result)
  /\ op' = "serialize"
  /\ UNCHANGED <<input, base_url, arg, result, steps>>

ParamsParse ==
  /\ op = "serialize"
  /\ arg' = params_parse(ret)
  /\ op' = "parse_params"
  /\ UNCHANGED <<input, base_url, result, ret, steps>>

NextParams == ParamsAppend \/ ParamsSet \/ ParamsSerialize \/ ParamsParse

ParamsSpec == InitParams /\ [][NextParams]_vars

\* The places of the pairs with the key
PlacesOf(params, key) == {i \in 1..Len(params) : params[i][1] = key}

\* The pairs with another key, in their order
Others(params, key) == SelectSeq(params, LAMBDA pair : pair[1] /= key)

\* The number of pairs with another key before place i
OthersBefore(params, key, i) == Cardinality({j \in 1..(i - 1) : params[j][1] /= key})

SetDone(before, key, value, after) ==
  /\ get_all(after, key) = <<value>>
  /\ Others(after, key) = Others(before, key)
  /\ IF PlacesOf(before, key) = {}
     THEN /\ after[Len(after)] = <<key, value>>
          /\ size(after) = size(before) + 1
     ELSE /\ \E i \in PlacesOf(after, key) :
               OthersBefore(after, key, i)
                 = OthersBefore(before, key, MinOf(PlacesOf(before, key)))
          /\ size(after) = size(before) - (Cardinality(PlacesOf(before, key)) - 1)

\* C34: after set(k, v) get_all(k) is [v], the pair stands where the first
\* former pair with key k stood or at the end when there was none, the pairs
\* with another key keep value and order, and the size falls by the number
\* of former duplicates or grows by one
C34_Set == op = "set" => SetDone(arg[1], arg[2], arg[3], result)

\* A set that removed a duplicate and kept a pair with another key behind
\* the surviving one
C34_Witness ==
  /\ op = "set"
  /\ Cardinality(PlacesOf(arg[1], arg[2])) = 2
  /\ Len(result) = 2
  /\ result[1] = <<arg[2], arg[3]>>
  /\ result[2][1] /= arg[2]

\* C35: parse of the serialization of a list built by append gives the
\* same pairs in the same order, and the empty list serializes to the empty
\* string
C35_RoundTrip ==
  /\ op = "parse_params" => arg = result
  /\ (op = "serialize" /\ result = <<>>) => ret = <<>>
  /\ op = "serialize" =>
       \A i \in 1..Len(ret) : IsUnreserved(ret[i]) \/ ret[i] \in {43, 37, 38, 61, 63}

\* A list of three pairs with '=', '&', ' ', '%', '+' and a two-byte
\* character came back from its serialization
C35_Witness ==
  /\ op = "parse_params"
  /\ Len(result) = 3
  /\ arg = result
  /\ \E i \in 1..3 : result[i] = << <<98, 61, 38>>, <<195, 169, 37, 43, 126>> >>
  /\ \E i \in 1..3 : result[i][2] = <<120, 32, 121>>

\* C36: no sequence of setter calls on a successfully parsed URL panics
C36_NoPanic == op /= "panic"

\* The scheme in the buffer, without its ':'
SchemeText(u) == Slice(u.buffer, 0, u.protocol_end - 1)

\* C37: after a successful parse and any sequence of setter calls the stored
\* scheme type is get_scheme_type of the protocol text in the buffer without
\* its ':'
C37_SchemeType ==
  (op \in Setters \cup {"parse"} /\ result.ok)
    => result.url.scheme_type = get_scheme_type(SchemeText(result.url))

\* Whether "/." stands between the host and the pathname
HasMarker(u) ==
  /\ u.pathname_start = u.host_end + 2
  /\ GetIs(u.buffer, u.host_end, u.host_end + 2, <<"/", ".">>)

\* The buffer between host_end and pathname_start, a "/." marker left out
PortText(u) ==
  IF HasMarker(u) THEN <<>>
  ELSE IF u.host_end <= u.pathname_start /\ u.pathname_start <= Len(u.buffer)
  THEN Slice(u.buffer, u.host_end, u.pathname_start)
  ELSE <<"?">>

PortAgrees(u) ==
  /\ PortText(u) = IF has_port(u) THEN <<":">> \o ToDec(u.port) ELSE <<>>
  /\ host(u) = IF port(u) = <<>> THEN hostname(u)
               ELSE hostname(u) \o <<":">> \o port(u)

\* C38: after a successful parse and any sequence of setter calls the port
\* text and the numeric port agree: the buffer between host_end and
\* pathname_start is ':' and the decimal port when the port is present and
\* not the default of the scheme, and empty otherwise; host() is hostname()
\* when port() is empty and hostname() ':' port() otherwise
C38_PortAgrees ==
  (op \in Setters \cup {"parse"} /\ result.ok) => PortAgrees(result.url)

\* Whether two values answer the getters of C39 alike
SameGetters(a, b) ==
  /\ href(a) = href(b)
  /\ protocol(a) = protocol(b)
  /\ username(a) = username(b)
  /\ password(a) = password(b)
  /\ host(a) = host(b)
  /\ pathname(a) = pathname(b)
  /\ search(a) = search(b)
  /\ hash(a) = hash(b)

\* parse(u.href(), None) succeeds with the getters of u
Stable(u) ==
  With(parse_url_aggregator(href(u), None),
       LAMBDA r : r.ok /\ SameGetters(r.url, u))

\* C39: after setter calls that succeed on a successfully parsed URL,
\* parse(href(), None) succeeds and returns a URL with the same href,
\* protocol, username, password, host, pathname, search and hash
C39_Reparseable ==
  (op \in Setters /\ result.ok /\ ret) => Stable(result.url)

(***************************************************************************)
(* parser/parse_aggregator.rs: the main loop of parse_url_aggregator, one  *)
(* iteration at a time, over the bytes of the input.  A non-ASCII          *)
(* character (U+00E9) is the byte NonAscii followed by the byte            *)
(* Continuation; the pointer and every index into the input count bytes.   *)
(* An iteration ends in Go (the next state and pointer), Break (the loop   *)
(* is left), Return (an early return of a value), Fail (an early return of *)
(* an error) or Panic (a slice out of bounds or off a character boundary,  *)
(* or an index below zero).                                                *)
(***************************************************************************)
Continuation == "<cont>"

\* str::as_bytes
RECURSIVE Bytes(_)
Bytes(chars) ==
  IF chars = <<>> THEN <<>>
  ELSE (IF chars[1] = NonAscii THEN <<NonAscii, Continuation>> ELSE <<chars[1]>>)
       \o Bytes(Tail(chars))

\* The characters of a slice of the input that starts and ends on character
\* boundaries
Chars(bytes) == SelectSeq(bytes, LAMBDA b : b /= Continuation)

\* str::is_char_boundary
IsCharBoundary(bytes, index) ==
  \/ index = 0
  \/ index = Len(bytes)
  \/ (index > 0 /\ index < Len(bytes) /\ bytes[index + 1] /= Continuation)

\* &input[a..b] does not panic
SliceOk(bytes, a, b) ==
  /\ 0 <= a /\ a <= b /\ b <= Len(bytes)
  /\ IsCharBoundary(bytes, a) /\ IsCharBoundary(bytes, b)

\* &buffer[a..b] does not panic (the buffer is a sequence of characters)
BufOk(buf, a, b) == 0 <= a /\ a <= b /\ b <= Len(buf)

Go(state, m, pointer) ==
  [kind |-> "go", state |-> state, m |-> m, pointer |-> pointer, err |-> ""]

Break(m) ==
  [kind |-> "break", state |-> "", m |-> m, pointer |-> 0, err |-> ""]

Return(u) ==
  [kind |-> "return", state |-> "", m |-> u, pointer |-> 0, err |-> ""]

Fail(e) ==
  [kind |-> "fail", state |-> "", m |-> NoUrl, pointer |-> 0, err |-> e]

Panic ==
  [kind |-> "panic", state |-> "", m |-> NoUrl, pointer |-> 0, err |-> ""]

\* The slices and the subtraction of copy_authority_from_base do not panic.
CopyBaseOk(m, base) ==
  \/ ~GetIs(base.buffer, base.protocol_end, base.protocol_end + 2, <<"/","/">>)
  \/ /\ BufOk(base.buffer, base.protocol_end, base.pathname_start)
     /\ Len(m.buffer) + (base.pathname_start - base.protocol_end)
          >= base.pathname_start

\* The slices of UrlAggregator::copy_authority_from do not panic.
CopyFromOk(base) ==
  \/ ~GetIs(base.buffer, base.protocol_end, base.protocol_end + 2, <<"/","/">>)
  \/ /\ (base.username_end > base.protocol_end + 2
           => BufOk(base.buffer, base.protocol_end + 2, base.username_end))
     /\ (base.password_end > base.username_end
           => BufOk(base.buffer, base.username_end, base.password_end))
     /\ BufOk(base.buffer, base.host_start, base.host_end)
     /\ (base.host_end < base.pathname_start
           => BufOk(base.buffer, base.host_end, base.pathname_start))

\* &base_buf[path_start..path_end] does not panic
BasePathOk(base) ==
  BufOk(base.buffer, base.pathname_start,
        get_pathname_end(base, Len(base.buffer)))

\* &base_buf[search_start..search_end] does not panic
BaseQueryOk(base) ==
  base.search_start > 0
    => BufOk(base.buffer, base.search_start,
             get_search_end(base, Len(base.buffer)))

StepSchemeStart(bytes, fragment, base, m, pointer) ==
  IF pointer >= Len(bytes)
  THEN IF base.some THEN Go("NoScheme", m, pointer) ELSE Fail("InvalidScheme")
  ELSE IF bytes[pointer + 1] \notin Alpha THEN Go("NoScheme", m, pointer)
  ELSE
    Eager(ScanWhile(bytes, pointer, AlphaNum \cup {"+", "-", "."}),
         LAMBDA scheme_end :
      IF scheme_end >= Len(bytes) \/ bytes[scheme_end + 1] /= ":"
      THEN IF base.some THEN Go("NoScheme", m, 0) ELSE Fail("InvalidScheme")
      ELSE IF ~SliceOk(bytes, pointer, scheme_end) THEN Panic
      ELSE
        Eager(to_ascii_lowercase(Chars(Slice(bytes, pointer, scheme_end))),
             LAMBDA scheme :
        Eager([m EXCEPT !.buffer = @ \o scheme \o <<":">>,
                       !.protocol_end = Len(m.buffer) + Len(scheme) + 1,
                       !.scheme_type = get_scheme_type(scheme)], LAMBDA m1 :
          IF /\ base.some
             /\ is_special(m1.scheme_type)
             /\ base.url.scheme_type = m1.scheme_type
          THEN Go("SpecialRelativeOrAuthority", m1, scheme_end + 1)
          ELSE IF scheme = <<"f","i","l","e">>
          THEN Go("File", m1, scheme_end + 1)
          ELSE IF is_special(m1.scheme_type)
          THEN Go("SpecialAuthoritySlashes", m1, scheme_end + 1)
          ELSE Go("PathOrAuthority", m1, scheme_end + 1))))

StepNoScheme(bytes, fragment, base, m, pointer) ==
  IF ~base.some THEN Fail("RelativeUrlWithoutBase")
  ELSE IF has_opaque_path(base.url) /\ ~(pointer >= Len(bytes) /\ fragment.some)
  THEN Fail("RelativeUrlWithoutBase")
  ELSE IF pointer >= Len(bytes)
  THEN Eager(base.url, LAMBDA b :
         Return(AddFragment(IF b.hash_start > 0
                            THEN [b EXCEPT !.buffer = Slice(@, 0, b.hash_start),
                                           !.hash_start = 0]
                            ELSE b, fragment)))
  ELSE Go("Relative", m, pointer)

StepSpecialRelativeOrAuthority(bytes, fragment, base, m, pointer) ==
  IF pointer + 1 < Len(bytes) /\ bytes[pointer + 1] = "/" /\ bytes[pointer + 2] = "/"
  THEN Go(IF m.scheme_type = "File" THEN "FileHost" ELSE "Authority",
          Push(m, <<"/","/">>), pointer + 2)
  ELSE Go("Relative", m, pointer)

\* The '?' or '#' after the drive letter of State::Relative and FileHost
StepAfterDrive(bytes, m, pointer) ==
  IF pointer < Len(bytes) /\ bytes[pointer + 1] \in {"/", "\\"}
  THEN Go("Path", m, pointer)
  ELSE IF pointer < Len(bytes) /\ bytes[pointer + 1] = "?"
  THEN Go("Query", Push([m EXCEPT !.search_start = Len(m.buffer)], <<"?">>),
          pointer + 1)
  ELSE IF pointer < Len(bytes) /\ bytes[pointer + 1] = "#"
  THEN Go("Fragment", Push([m EXCEPT !.hash_start = Len(m.buffer)], <<"#">>),
          pointer + 1)
  ELSE Break(m)

StepRelative(bytes, fragment, base, m0, pointer) ==
  IF ~base.some THEN Fail("RelativeUrlWithoutBase")
  ELSE
    Eager(base.url, LAMBDA b :
    Eager(IF m0.protocol_end = 0
         THEN [m0 EXCEPT !.buffer = @ \o protocol(b),
                         !.protocol_end = Len(m0.buffer) + Len(protocol(b)),
                         !.scheme_type = b.scheme_type]
         ELSE m0, LAMBDA m :
      IF pointer >= Len(bytes)
      THEN IF ~CopyBaseOk(m, b) \/ ~BasePathOk(b) \/ ~BaseQueryOk(b) THEN Panic
           ELSE Return(AddFragment(
                  CopyBaseQuery(CopyBasePath(copy_authority_from_base(m, b), b), b),
                  fragment))
      ELSE IF m.scheme_type = "File" /\ is_windows_drive_letter(bytes, pointer)
      THEN IF ~CopyBaseOk(m, b) THEN Panic
           ELSE StepAfterDrive(bytes,
                               PushDrive(copy_authority_from_base(m, b),
                                         bytes[pointer + 1]),
                               pointer + 2)
      ELSE IF bytes[pointer + 1] = "/"
              \/ (is_special(m.scheme_type) /\ bytes[pointer + 1] = "\\")
      THEN Go("RelativeSlash", m, pointer + 1)
      ELSE IF bytes[pointer + 1] = "?"
      THEN IF ~CopyBaseOk(m, b) \/ ~BasePathOk(b) THEN Panic
           ELSE Eager(CopyBasePath(copy_authority_from_base(m, b), b), LAMBDA m1 :
                  Go("Query",
                     Push([m1 EXCEPT !.search_start = Len(m1.buffer)], <<"?">>),
                     pointer + 1))
      ELSE IF bytes[pointer + 1] = "#"
      THEN IF ~CopyBaseOk(m, b) \/ ~BasePathOk(b) \/ ~BaseQueryOk(b) THEN Panic
           ELSE Eager(CopyBaseQuery(CopyBasePath(copy_authority_from_base(m, b), b),
                                   b), LAMBDA m1 :
                  Go("Fragment",
                     Push([m1 EXCEPT !.hash_start = Len(m1.buffer)], <<"#">>),
                     pointer + 1))
      ELSE IF (~has_opaque_path(b) /\ ~CopyBaseOk(m, b)) \/ ~BasePathOk(b)
      THEN Panic
      ELSE Eager(CopyBasePath(IF has_opaque_path(b) THEN m
                             ELSE copy_authority_from_base(m, b), b),
                LAMBDA m1 :
             IF ~BufOk(m1.buffer, m1.pathname_start, Len(m1.buffer)) THEN Panic
             ELSE Eager(FindLast(From(m1.buffer, m1.pathname_start), {"/"}),
                       LAMBDA last_slash :
                    Go("Path",
                       IF last_slash >= 0
                       THEN [m1 EXCEPT !.buffer =
                               Slice(@, 0, m1.pathname_start + last_slash)]
                       ELSE m1,
                       pointer)))))

StepRelativeSlash(bytes, fragment, base, m, pointer) ==
  IF /\ pointer < Len(bytes)
     /\ (bytes[pointer + 1] = "/"
         \/ (is_special(m.scheme_type) /\ bytes[pointer + 1] = "\\"))
  THEN Go(IF m.scheme_type = "File" THEN "FileHost" ELSE "Authority",
          Push(m, <<"/","/">>), pointer + 1)
  ELSE IF ~base.some THEN Fail("RelativeUrlWithoutBase")
  ELSE IF ~CopyFromOk(base.url) THEN Panic
  ELSE
    Eager(copy_authority_from(m, base.url), LAMBDA temp_url :
    Eager(pathname(base.url), LAMBDA base_pathname :
      Go("Path",
         IF keeps_base_drive(bytes, pointer, m.scheme_type, base_pathname)
         THEN Push(temp_url, Slice(base_pathname, 0, 3))
         ELSE temp_url,
         pointer)))

\* Two slashes leave the second one to the increment at the end of the loop.
StepSpecialAuthoritySlashes(bytes, fragment, base, m, pointer) ==
  IF pointer < Len(bytes) /\ bytes[pointer + 1] \in {"/", "\\"}
  THEN IF pointer + 1 < Len(bytes) /\ bytes[pointer + 2] \in {"/", "\\"}
       THEN Go("Authority", Push(m, <<"/","/">>), (pointer + 1) + 1)
       ELSE Go("Authority", Push(m, <<"/","/">>), pointer + 1)
  ELSE Go("Authority", Push(m, <<"/","/">>), pointer)

\* The position of the last '@' of the authority without the offset of the
\* authority in the input
LastAtInAuthority(bytes, auth_start, auth_end) ==
  FindLast(Slice(bytes, auth_start, auth_end), {"@"})

\* memrchr(b'@', &bytes[auth_start..auth_end]).map(|pos| auth_start + pos),
\* -1 for None
LastAt(bytes, auth_start, auth_end) ==
  Eager(FindLast(Slice(bytes, auth_start, auth_end), {"@"}), LAMBDA pos :
    IF pos < 0 THEN -1 ELSE auth_start + pos)

\* The host and port of the authority, then the state of the path.
StepHost(mc, host_part, auth_end, special) ==
  Eager([mc EXCEPT !.host_start = Len(mc.buffer)], LAMBDA m0 :
  Eager(parse_host_and_port(host_part, m0, m0.scheme_type), LAMBDA parsed :
    IF ~parsed.ok THEN Fail(parsed.err)
    ELSE Go(IF special THEN "Path" ELSE "OpaquePath",
            IF parsed.url.pathname_start = 0
            THEN [parsed.url EXCEPT !.pathname_start = Len(parsed.url.buffer)]
            ELSE parsed.url,
            auth_end)))

StepAuthority(bytes, fragment, base, m, pointer) ==
  Eager(is_special(m.scheme_type), LAMBDA special :
  Eager(IF special THEN ScanWhile(bytes, pointer, {"/", "\\"}) ELSE pointer,
       LAMBDA auth_start :
  Eager(ScanTo(bytes, auth_start,
              IF special THEN {"/", "?", "#", "\\"} ELSE {"/", "?", "#"}),
       LAMBDA auth_end :
  Eager(LastAt(bytes, auth_start, auth_end), LAMBDA at_idx :
    IF ~SliceOk(bytes, auth_start, auth_end) THEN Panic
    ELSE
      Eager(Slice(bytes, auth_start, auth_end), LAMBDA authority :
        IF at_idx >= 0
        THEN IF \/ ~SliceOk(authority, 0, at_idx - auth_start)
                \/ ~SliceOk(authority, at_idx - auth_start + 1, Len(authority))
             THEN Panic
             ELSE Eager(Chars(From(authority, at_idx - auth_start + 1)),
                       LAMBDA host_part :
                    IF m.scheme_type /= "File" /\ host_part = <<>>
                    THEN Fail("InvalidHost")
                    ELSE Eager(WriteCredentials(
                                 m, Chars(Slice(authority, 0, at_idx - auth_start))),
                               LAMBDA mc :
                           StepHost(mc, host_part, auth_end, special)))
        ELSE IF StartsWith(authority, <<":">>) THEN Fail("InvalidHost")
        ELSE IF /\ special /\ m.scheme_type /= "File"
                /\ authority = <<>>
                /\ ~(auth_end < Len(bytes) /\ bytes[auth_end + 1] = "/")
        THEN Fail("InvalidHost")
        ELSE Eager(Chars(authority), LAMBDA host_part :
               StepHost(m, host_part, auth_end, special)))))))

StepPathOrAuthority(bytes, fragment, base, m, pointer) ==
  IF pointer + 1 < Len(bytes) /\ bytes[pointer + 1] = "/" /\ bytes[pointer + 2] = "/"
  THEN Go("Authority", Push(m, <<"/","/">>), pointer + 2)
  ELSE Go("OpaquePath",
          [m EXCEPT !.host_start = Len(m.buffer),
                    !.host_end = Len(m.buffer),
                    !.pathname_start = Len(m.buffer)],
          pointer)

StepFile(bytes, fragment, base, m, pointer) ==
  Eager([Push(m, <<"/","/">>) EXCEPT !.host_start = Len(m.buffer) + 2,
                                    !.host_end = Len(m.buffer) + 2], LAMBDA m1 :
    IF is_windows_drive_letter(bytes, pointer)
    THEN Go("Path", PushDrive(m1, bytes[pointer + 1]), pointer + 2)
    ELSE IF pointer < Len(bytes) /\ bytes[pointer + 1] \in {"/", "\\"}
    THEN Go("FileSlash", m1, pointer + 1)
    ELSE Go("Path", [m1 EXCEPT !.pathname_start = Len(m1.buffer)], pointer))

\* pointer -= 1 panics at zero
StepFileSlash(bytes, fragment, base, m, pointer) ==
  IF pointer < Len(bytes) /\ bytes[pointer + 1] \in {"/", "\\"}
  THEN Go("FileHost", m, pointer + 1)
  ELSE IF pointer < 1 THEN Panic
  ELSE Go("Path", [m EXCEPT !.pathname_start = Len(m.buffer)], pointer - 1)

StepFileHost(bytes, fragment, base, m, pointer) ==
  Eager(ScanTo(bytes, pointer, {"/", "\\", "?", "#"}), LAMBDA host_end :
    IF ~SliceOk(bytes, pointer, host_end) THEN Panic
    ELSE
      Eager(Chars(Slice(bytes, pointer, host_end)), LAMBDA host_str :
        IF is_encoded_drive(host_str, percent_decode(host_str))
        THEN Fail("InvalidHost")
        ELSE IF is_windows_drive_letter(bytes, pointer)
        THEN Eager(PushDrive([m EXCEPT !.host_start = Len(m.buffer),
                                      !.host_end = Len(m.buffer)],
                            bytes[pointer + 1]), LAMBDA m1 :
               IF pointer + 2 < Len(bytes)
                  /\ bytes[pointer + 3] \in {"/", "\\", "?", "#"}
               THEN Go("Path", m1, pointer + 2)
               ELSE Break(m1))
        ELSE Eager(FileHostWrite([m EXCEPT !.host_start = Len(m.buffer)], host_str),
                  LAMBDA written :
               IF ~written.ok THEN Fail(written.err)
               ELSE Go("Path",
                       [written.url EXCEPT
                          !.host_end = Len(written.url.buffer),
                          !.pathname_start = Len(written.url.buffer)],
                       host_end))))

\* buffer[protocol_end..protocol_end + 2] of the "/." check does not panic
MarkerOk(m) ==
  m.protocol_end + 2 <= m.host_start => m.protocol_end + 2 <= Len(m.buffer)

\* The end of a path that leaves the '?' or '#' to the same state
StayAfterPath(bytes, m, pointer, state) == Go(state, m, pointer)

\* The '?' or '#' at the end of a path: the state stays when the byte is
\* neither.
StepAfterPath(bytes, m, pointer, state) ==
  IF bytes[pointer + 1] = "?"
  THEN Go("Query", Push([m EXCEPT !.search_start = Len(m.buffer)], <<"?">>),
          pointer + 1)
  ELSE IF bytes[pointer + 1] = "#"
  THEN Go("Fragment", Push([m EXCEPT !.hash_start = Len(m.buffer)], <<"#">>),
          pointer + 1)
  ELSE Go(state, m, pointer)

\* The end of the input after a path
StepPathEnd(m) ==
  IF ~MarkerOk(m) THEN Panic ELSE Break(InsertMarker(m))

\* The path text written to the buffer by State::Path, and whether the
\* fast path without dot segments wrote it.
PathWritten(m, raw) ==
  Eager(IF is_special(m.scheme_type) /\ HasChar(raw, "\\")
       THEN ReplaceChar(raw, "\\", "/") ELSE raw, LAMBDA np0 :
  Eager(IF m.scheme_type = "File" /\ HasChar(np0, "|")
       THEN NormalizeDriveBar(np0) ELSE np0, LAMBDA normalized_path :
  Eager(IF StartsWith(normalized_path, <<"/">>) THEN Tail(normalized_path)
       ELSE normalized_path, LAMBDA input_ :
  Eager(From(m.buffer, m.pathname_start), LAMBDA path :
  Eager(~needs_normalization(input_) /\ path = <<>>, LAMBDA fast :
    [fast |-> fast,
     m |-> IF fast
           THEN Push(m, <<"/">> \o percent_encode_with_set(input_, PATH_SET))
           ELSE [m EXCEPT !.buffer = Slice(@, 0, m.pathname_start)
                                     \o consume_path(input_, path, m.scheme_type)]])))))

StepPath(bytes, fragment, base, m, pointer) ==
  Eager(ScanTo(bytes, pointer, {"?", "#"}), LAMBDA path_end :
    IF ~(IsCharBoundary(bytes, pointer) /\ IsCharBoundary(bytes, path_end))
    THEN IF path_end < Len(bytes) THEN Go("Path", m, path_end) ELSE Break(m)
    ELSE IF ~BufOk(m.buffer, m.pathname_start, Len(m.buffer)) THEN Panic
    ELSE Eager(PathWritten(m, Chars(Slice(bytes, pointer, path_end))), LAMBDA w :
           IF path_end < Len(bytes)
           THEN StepAfterPath(bytes, w.m, path_end, "Path")
           ELSE IF w.fast THEN Break(w.m)
           ELSE StepPathEnd(w.m)))

StepQuery(bytes, fragment, base, m, pointer) ==
  Eager(ScanTo(bytes, pointer, {"#"}), LAMBDA query_end :
  Eager(IF /\ pointer < query_end
          /\ IsCharBoundary(bytes, pointer) /\ IsCharBoundary(bytes, query_end)
       THEN Push(m, percent_encode_with_set(
                      Chars(Slice(bytes, pointer, query_end)),
                      IF is_special(m.scheme_type) THEN SPECIAL_QUERY_SET
                      ELSE QUERY_SET))
       ELSE m, LAMBDA m1 :
    IF query_end < Len(bytes)
    THEN Go("Fragment", Push([m1 EXCEPT !.hash_start = Len(m1.buffer)], <<"#">>),
            query_end + 1)
    ELSE Break(m1)))

StepOpaquePath(bytes, fragment, base, m, pointer) ==
  Eager(ScanTo(bytes, pointer, {"?", "#"}), LAMBDA path_end :
  Eager(IF /\ pointer < path_end
          /\ IsCharBoundary(bytes, pointer) /\ IsCharBoundary(bytes, path_end)
       THEN Chars(Slice(bytes, pointer, path_end)) ELSE <<>>, LAMBDA path_str :
  Eager(StartsWith(path_str, <<"/">>), LAMBDA lead :
  Eager(EndsWith(path_str, <<"/">>) /\ Len(path_str) > 1, LAMBDA trail :
  Eager(Split(path_str, "/"), LAMBDA parts :
  Eager(opaque_segments(parts, 1, <<>>, lead, trail,
                        m.host_start < m.host_end), LAMBDA segments :
  Eager(IF path_str /= <<>>
       THEN Push(m, (IF lead THEN <<"/">> ELSE <<>>)
                    \o Join(segments, "/")
                    \o (IF trail /\ segments /= <<>> THEN <<"/">> ELSE <<>>))
       ELSE m, LAMBDA m1 :
    IF path_end < Len(bytes)
    THEN IF ~BufOk(m1.buffer, m1.pathname_start, Len(m1.buffer)) THEN Panic
         ELSE StepAfterPath(bytes, EncodeTrailingSpaces(m1), path_end,
                            "OpaquePath")
    ELSE StepPathEnd(m1))))))))

StepFragment(bytes, fragment, base, m, pointer) ==
  Break(IF pointer < Len(bytes) /\ IsCharBoundary(bytes, pointer)
        THEN Push(m, percent_encode_with_set(Chars(From(bytes, pointer)),
                                             FRAGMENT_SET))
        ELSE m)

\* The states in the order of the match of the main loop
States ==
  <<"SchemeStart", "NoScheme", "SpecialRelativeOrAuthority", "Relative",
    "RelativeSlash", "SpecialAuthoritySlashes", "Authority", "PathOrAuthority",
    "File", "FileSlash", "FileHost", "Path", "Query", "OpaquePath", "Fragment">>

\* match state { ... }
Step(state, bytes, fragment, base, m, pointer) ==
  CASE state = "SchemeStart" -> StepSchemeStart(bytes, fragment, base, m, pointer)
    [] state = "NoScheme" -> StepNoScheme(bytes, fragment, base, m, pointer)
    [] state = "SpecialRelativeOrAuthority" ->
         StepSpecialRelativeOrAuthority(bytes, fragment, base, m, pointer)
    [] state = "Relative" -> StepRelative(bytes, fragment, base, m, pointer)
    [] state = "RelativeSlash" -> StepRelativeSlash(bytes, fragment, base, m, pointer)
    [] state = "SpecialAuthoritySlashes" ->
         StepSpecialAuthoritySlashes(bytes, fragment, base, m, pointer)
    [] state = "Authority" -> StepAuthority(bytes, fragment, base, m, pointer)
    [] state = "PathOrAuthority" ->
         StepPathOrAuthority(bytes, fragment, base, m, pointer)
    [] state = "File" -> StepFile(bytes, fragment, base, m, pointer)
    [] state = "FileSlash" -> StepFileSlash(bytes, fragment, base, m, pointer)
    [] state = "FileHost" -> StepFileHost(bytes, fragment, base, m, pointer)
    [] state = "Path" -> StepPath(bytes, fragment, base, m, pointer)
    [] state = "Query" -> StepQuery(bytes, fragment, base, m, pointer)
    [] state = "OpaquePath" -> StepOpaquePath(bytes, fragment, base, m, pointer)
    [] state = "Fragment" -> StepFragment(bytes, fragment, base, m, pointer)

\* One iteration of the main loop: a byte of 128 or more that is not on a
\* character boundary is skipped, any other position is given to the state.
Iteration(state, bytes, fragment, base, m, pointer) ==
  IF /\ pointer < Len(bytes)
     /\ bytes[pointer + 1] \in {NonAscii, Continuation}
     /\ ~IsCharBoundary(bytes, pointer)
  THEN Go(state, m, pointer + 1)
  ELSE Step(state, bytes, fragment, base, m, pointer)

(***************************************************************************)
(* The main loop as a state machine.  op is the place in the function      *)
(* ("idle" before the call, "loop", "left" after a break, "done"), arg     *)
(* holds the call (parse or can_parse), the bytes of the cleaned input     *)
(* without its fragment, the fragment and the parsed base, result is the   *)
(* outcome of the last iteration (state, value built so far and pointer    *)
(* of the next one) and ret lists the states of the iterations so far.     *)
(***************************************************************************)
MachineAlphabet == {"/", "\\", "?", "#", "@", ":", ".", "C", NonAscii}

RECURSIVE MachineTexts(_)
MachineTexts(k) ==
  IF k = 0 THEN {<<>>}
  ELSE LET shorter == MachineTexts(k - 1)
       IN shorter \cup {Append(t, c) : t \in {x \in shorter : Len(x) = k - 1},
                                       c \in MachineAlphabet}

MachinePrefixes ==
  { <<>>,
    <<"s","c",":">>,
    <<"s","c",":","/","/">>,
    <<"h","t","t","p",":">>,
    <<"h","t","t","p",":","/","/","a">>,
    <<"f","i","l","e",":">>,
    <<"f","i","l","e",":","/","/">>,
    <<"s","c",":","/",".","/">> }

MachineInputs == {p \o t : p \in MachinePrefixes, t \in MachineTexts(MaxTail)}

\* The texts of the runs that are followed to their end under fairness
MaxLiveTail == 1

LiveInputs ==
  {p \o t : p \in MachinePrefixes \cup {<<"f","i","l","e",":","/","/","C">>},
            t \in MachineTexts(MaxLiveTail)}

MachineBases ==
  { None,
    Some(<<"h","t","t","p",":","/","/","u","@","a","/","b","?","q","#","f">>),
    Some(<<"f","i","l","e",":","/","/","/","C",":","/","x">>),
    Some(<<"s","c",":","o">>) }

InitMachine ==
  /\ input = <<>>
  /\ base_url = None
  /\ op = "idle"
  /\ arg = [call |-> "", bytes |-> <<>>, fragment |-> None, base |-> NoneUrl]
  /\ result = Go("SchemeStart", NoUrl, 0)
  /\ ret = <<>>
  /\ steps = 0

\* The early rejections of validate_url: "" when the text goes to the parser
ValidateEarly(text, base) ==
  Eager(TrimC0Space(text), LAMBDA trimmed :
  Eager(Slice(trimmed, 0, MinOf({Len(trimmed), 32})), LAMBDA scan :
    IF trimmed = <<>> /\ ~base.some THEN "InvalidScheme"
    ELSE IF ~base.some /\ ~HasChar(trimmed, ":") THEN "InvalidScheme"
    ELSE IF ~base.some /\ trimmed /= <<>> /\ trimmed[1] \notin Alpha
    THEN "InvalidScheme"
    ELSE IF ~base.some
            /\ \E i \in 1..Len(scan) : scan[i] \in {" ", "\t", "<", ">", "{", "}"}
    THEN "InvalidHost"
    ELSE ""))

\* The base text parsed with no base of its own
ParseBase(base) ==
  IF base.some THEN parse_url_aggregator(base.s, None) ELSE Ok(NoUrl)

\* What precedes the main loop decides: an early rejection of can_parse, the
\* error of the base, the value of the fast path, or the first iteration.
Entered(call, text, base_text, base, pruned) ==
  Eager(IF call = "can_parse" THEN ValidateEarly(text, base_text) ELSE "",
        LAMBDA early :
    IF early /= "" THEN Fail(early)
    ELSE IF ~base.ok THEN Fail(base.err)
    ELSE IF ~base_text.some /\ Len(Bytes(pruned[1])) >= 7
    THEN Eager(try_http_fast_path(pruned[1]), LAMBDA fast_result :
           IF fast_result.some
           THEN Return(AddFragment(fast_result.url, pruned[2]))
           ELSE Go("SchemeStart", NoUrl, 0))
    ELSE Go("SchemeStart", NoUrl, 0))

\* The call and what precedes the main loop: the early rejections of
\* can_parse, the cleaning, the fragment, the base and the fast path.
Call(texts) ==
  /\ op = "idle"
  /\ \E text \in texts, base_text \in MachineBases,
        call \in {"parse", "can_parse"} :
       With(prune_fragment(Cleaned(text)), LAMBDA pruned :
       With(ParseBase(base_text), LAMBDA base :
       With(Entered(call, text, base_text, base, pruned), LAMBDA outcome :
           /\ input' = text
           /\ base_url' = base_text
           /\ result' = outcome
           /\ arg' = [call |-> call,
                      bytes |-> Bytes(pruned[1]),
                      fragment |-> pruned[2],
                      base |-> IF base_text.some /\ base.ok
                               THEN SomeUrl(base.url) ELSE NoneUrl]
           /\ op' = IF outcome.kind = "go" THEN "loop" ELSE "done")))
  /\ UNCHANGED <<ret, steps>>

Enter == Call(MachineInputs)

EnterLive == Call(LiveInputs)

\* while pointer <= bytes.len() { ... }: one iteration
Iterate ==
  /\ op = "loop"
  /\ result.pointer <= Len(arg.bytes)
  /\ \E outcome \in {Iteration(result.state, arg.bytes, arg.fragment, arg.base,
                                result.m, result.pointer)} :
       /\ result' = outcome
       /\ op' = IF outcome.kind = "go" THEN "loop"
                ELSE IF outcome.kind = "break" THEN "left"
                ELSE "done"
  /\ ret' = Append(ret, result.state)
  /\ steps' = steps + 1
  /\ UNCHANGED <<input, base_url, arg>>

\* What follows the main loop
Leave ==
  /\ op = "left" \/ (op = "loop" /\ result.pointer > Len(arg.bytes))
  /\ result' = Return(Finish(result.m, arg.fragment).url)
  /\ op' = "done"
  /\ UNCHANGED <<input, base_url, arg, ret, steps>>

NextMachine == Enter \/ Iterate \/ Leave

MachineSpec == InitMachine /\ [][NextMachine]_vars

NextLive == EnterLive \/ Iterate \/ Leave

\* Every call runs on: the loop is not suspended.
MachineLive == InitMachine /\ [][NextLive]_vars /\ WF_vars(NextLive)

\* The result of the call
MachineResult ==
  IF result.kind = "return" THEN Ok(result.m) ELSE Err(result.err)

LastState == IF ret = <<>> THEN "" ELSE ret[Len(ret)]

\* An iteration ends the loop, or goes to a state that no iteration has run
\* yet, or stays in its state and advances the pointer.
ForwardStep ==
  (op = "loop" /\ ret' /= ret) =>
    \/ op' /= "loop"
    \/ result'.state /= result.state /\ result'.state \notin Range(ret')
    \/ result'.state = result.state /\ result'.pointer > result.pointer

\* The base of the loop is the base text parsed with no base of its own.
BaseParsedAlone ==
  (op /= "idle" /\ arg.base.some) =>
    /\ base_url.some
    /\ Ok(arg.base.url) = ParseWith(base_url.s, NoneUrl)

\* The states in which the sentence lets a run end with a break
PathStates == {"Path", "Query", "Fragment", "OpaquePath"}

====
